---- MODULE Spec2Model ----
(***************************************************************************)
(* Model of the colour configuration store, src/core/color_config.py:      *)
(* the class ColorConfig, the file it loads and rewrites, and the file     *)
(* system conditions under which reading and writing succeed or fail.      *)
(*                                                                         *)
(* A Python dict is a function with a finite domain.  The in-memory        *)
(* document self.config is a record: "keys" is the set of top-level keys   *)
(* that are present, the other fields hold the sections (a section that    *)
(* is not present holds the empty dict or the empty string).  The file     *)
(* holds JSON: an object is a set of <<key, value>> members, the booleans  *)
(* are the tokens "true" and "false".                                      *)
(***************************************************************************)
EXTENDS Integers, FiniteSets, Sequences, TLC

VARIABLES
    alive,          \* a ColorConfig instance exists (its constructor returned)
    config,         \* self.config
    module_colors,  \* self.module_colors
    aliased,        \* self.module_colors is the very object self.config["modules"]
    disk,           \* the file at self.config_path
    readable,       \* the file, when it exists, can be opened for reading
    writable,       \* the file can be created or opened for writing
    last,           \* the call made by the last step, its arguments and outcome
    nops,           \* number of steps taken
    env,            \* the file system besides the configuration file
    gm,             \* the GitManagerModule instance and the outcome of its last call
    singleton,      \* _color_config_instance of color_config.py
    app,            \* the App, its modules and its colour panel
    timer,          \* the DashboardModule and the after() calls it has pending
    watch           \* the LogModule, its file and the after() calls it has pending

\* the variables outside the store and the Git Manager
others == <<singleton, app, timer, watch>>

vars == <<alive, config, module_colors, aliased, disk, readable, writable, last, nops,
          env, gm, others>>

(* Bound on the length of a run. *)
MaxOps == 3

----------------------------------------------------------------------------
(* Python dicts *)

EmptyDict == [k \in {} |-> ""]

Put(d, k, v) == [x \in (DOMAIN d) \cup {k} |-> IF x = k THEN v ELSE d[x]]

\* dict.update(other)
Update(d, other) ==
    [x \in (DOMAIN d) \cup (DOMAIN other) |-> IF x \in DOMAIN other THEN other[x] ELSE d[x]]

TopKeys == {"version", "description", "modules", "window", "settings"}

Channels == {"bg_color", "fg_color"}

\* the value None, and an argument the caller does not pass
None == "None"
Omitted == "<omitted>"

\* dict.get(key) on a dict of strings: None when the key is missing
Get(d, k) == IF k \in DOMAIN d THEN d[k] ELSE None

----------------------------------------------------------------------------
(* The default document, _create_default_config *)

DefaultWindow == [bg_color |-> "#00c8f9", fg_color |-> "#ffffff"]

DefaultConfig ==
    [keys        |-> TopKeys,
     version     |-> "1.0",
     description |-> "Color configuration for application modules",
     modules     |-> EmptyDict,
     window      |-> DefaultWindow,
     settings    |-> [auto_apply |-> TRUE, preview_changes |-> TRUE]]

\* self.config = {} of __init__, before _load_config
EmptyConfig ==
    [keys |-> {}, version |-> "", description |-> "", modules |-> EmptyDict,
     window |-> EmptyDict, settings |-> EmptyDict]

----------------------------------------------------------------------------
(* JSON: json.dump and json.load *)

\* a dump that writes every setting as true
JsonBool_always_true(b) == "true"

JsonBool(b) == IF b THEN "true" ELSE "false"
PyBool(t) == (t = "true")
JsonStr(s) == s
PyStr(s) == s

\* the keys of a JSON object and the value of a member
Members(o) == {m[1] : m \in o}
Member(o, k) == (CHOOSE m \in o : m[1] = k)[2]

\* a dict of strings as a JSON object, one member per key, and back
DumpPair(p) == {<<k, JsonStr(p[k])>> : k \in DOMAIN p}
LoadPair(o) == [k \in Members(o) |-> PyStr(Member(o, k))]

\* a dict of booleans
DumpSettings(d) == {<<k, JsonBool(d[k])>> : k \in DOMAIN d}
LoadSettings(o) == [k \in Members(o) |-> PyBool(Member(o, k))]

\* a dict of colour dicts
DumpModules(d) == {<<k, DumpPair(d[k])>> : k \in DOMAIN d}
LoadModules(o) == [k \in Members(o) |-> LoadPair(Member(o, k))]

\* json.dump(self.config, f, indent=4)
JsonDump(cfg) ==
    [keys        |-> cfg.keys,
     version     |-> JsonStr(cfg.version),
     description |-> JsonStr(cfg.description),
     modules     |-> DumpModules(cfg.modules),
     window      |-> DumpPair(cfg.window),
     settings    |-> DumpSettings(cfg.settings)]

\* json.load(f) of a file holding a JSON object
JsonLoad(j) ==
    [keys        |-> j.keys,
     version     |-> PyStr(j.version),
     description |-> PyStr(j.description),
     modules     |-> LoadModules(j.modules),
     window      |-> LoadPair(j.window),
     settings    |-> LoadSettings(j.settings)]

EmptyJson == JsonDump(EmptyConfig)

\* files: no file, or a file of one of these kinds
AbsentFile == [kind |-> "absent", json |-> EmptyJson]
File(kind) == [kind |-> kind, json |-> EmptyJson]
ObjectFile(j) == [kind |-> "object", json |-> j]

----------------------------------------------------------------------------
(* The store: the fields of a ColorConfig instance *)

Store(cfg, mc, al) == [config |-> cfg, module_colors |-> mc, aliased |-> al]

\* self.module_colors = mc, seen through self.config["modules"] when the two
\* names denote one dict object
WithModuleColors(st, mc) ==
    [st EXCEPT !.module_colors = mc,
               !.config = IF st.aliased THEN [@ EXCEPT !.modules = mc] ELSE @]

Outcome(st, dsk, raised) == [store |-> st, disk |-> dsk, raised |-> raised]

\* where a write can fail: os.makedirs (line 89) or open(save_path, 'w') (line 94).
\* os.makedirs(..., exist_ok=True) cannot fail when the file, hence its
\* directory, exists.
FailModes(dsk, w) ==
    IF w THEN {"none"}
    ELSE IF dsk.kind = "absent" THEN {"makedirs", "open"} ELSE {"open"}

\* save_config written like _save_tasks: a failing open is swallowed
save_config_swallow(st, dsk, fail) ==
    IF fail = "makedirs" THEN Outcome(st, dsk, FALSE)
    ELSE LET cfg == [st.config EXCEPT !.keys = @ \cup {"modules"},
                                      !.modules = st.module_colors]
             st2 == Store(cfg, st.module_colors, TRUE)
         IN  IF fail = "open" THEN Outcome(st2, dsk, FALSE)
             ELSE Outcome(st2, ObjectFile(JsonDump(cfg)), FALSE)

\* save_config(self, path=None)
save_config(st, dsk, fail) ==
    IF fail = "makedirs" THEN Outcome(st, dsk, TRUE)
    ELSE LET cfg == [st.config EXCEPT !.keys = @ \cup {"modules"},
                                      !.modules = st.module_colors]
             st2 == Store(cfg, st.module_colors, TRUE)
         IN  IF fail = "open" THEN Outcome(st2, dsk, TRUE)
             ELSE Outcome(st2, ObjectFile(JsonDump(cfg)), FALSE)

\* _create_default_config without its call of save_config
create_default_config_unsaved(dsk, fail) ==
    Outcome(Store(DefaultConfig, EmptyDict, FALSE), dsk, FALSE)

\* _create_default_config(self)
create_default_config(dsk, fail) ==
    save_config(Store(DefaultConfig, EmptyDict, FALSE), dsk, fail)

\* what open(self.config_path, 'r') and json.load meet
Found(dsk, rd) ==
    IF dsk.kind = "absent" THEN "absent"
    ELSE IF ~rd THEN "unreadable" ELSE dsk.kind

\* _load_config(self), called by __init__ on self.config = {}, self.module_colors = {}
load_config(dsk, rd, fail) ==
    LET found == Found(dsk, rd) IN
    CASE found = "absent" -> create_default_config(dsk, fail)
      [] found \in {"unreadable", "malformed"} -> create_default_config(dsk, fail)
      [] found = "undecodable" ->
            \* UnicodeDecodeError is neither JSONDecodeError nor IOError
            Outcome(Store(EmptyConfig, EmptyDict, FALSE), dsk, TRUE)
      [] found = "nonobject" ->
            \* self.config is a list, a string, a number ...: .get raises AttributeError
            Outcome(Store(EmptyConfig, EmptyDict, FALSE), dsk, TRUE)
      [] found = "object" ->
            LET cfg == JsonLoad(dsk.json) IN
            IF "modules" \in cfg.keys
            THEN Outcome(Store(cfg, cfg.modules, TRUE), dsk, FALSE)
            ELSE Outcome(Store(cfg, EmptyDict, FALSE), dsk, FALSE)

\* get_module_color written with setdefault: the lookup creates the entry
get_module_color_setdefault(st, name, chan) ==
    LET mc == IF name \in DOMAIN st.module_colors THEN st.module_colors
              ELSE Put(st.module_colors, name, EmptyDict)
    IN  [store |-> WithModuleColors(st, mc), ret |-> Get(mc[name], chan)]

\* get_module_color(self, module_name, color_type): the instance afterwards and
\* the value returned
get_module_color(st, name, chan) ==
    LET module_config == IF name \in DOMAIN st.module_colors
                         THEN st.module_colors[name] ELSE EmptyDict
    IN  [store |-> st, ret |-> Get(module_config, chan)]

\* line 130 written with setdefault: a channel already stored keeps its value
SetColor_keep_existing(mc, name, chan, val) ==
    LET mc1 == IF name \notin DOMAIN mc THEN Put(mc, name, EmptyDict) ELSE mc
    IN  IF chan \in DOMAIN mc1[name] THEN mc1
        ELSE Put(mc1, name, Put(mc1[name], chan, val))

\* lines 127-130 assigning a new dict to the entry: the other channel is lost
SetColor_replace_entry(mc, name, chan, val) ==
    Put(mc, name, Put(EmptyDict, chan, val))

\* lines 127-130 of set_module_color: the change of self.module_colors
SetColor(mc, name, chan, val) ==
    LET mc1 == IF name \notin DOMAIN mc THEN Put(mc, name, EmptyDict) ELSE mc
    IN  Put(mc1, name, Put(mc1[name], chan, val))

\* set_module_color saving whatever auto_save is
set_module_color_always_saves(st, dsk, name, chan, val, auto_save, fail) ==
    save_config(WithModuleColors(st, SetColor(st.module_colors, name, chan, val)),
                dsk, fail)

\* set_module_color(self, module_name, color_type, color_value, auto_save=True)
set_module_color(st, dsk, name, chan, val, auto_save, fail) ==
    LET st1 == WithModuleColors(st, SetColor(st.module_colors, name, chan, val))
    IN  IF auto_save THEN save_config(st1, dsk, fail) ELSE Outcome(st1, dsk, FALSE)

\* get_all_colors(self)
get_all_colors(st) == st.module_colors

\* get_applied_colors(self)
get_applied_colors(st) ==
    IF "modules" \in st.config.keys THEN st.config.modules ELSE EmptyDict

\* get_settings(self)
get_settings(st) ==
    IF "settings" \in st.config.keys THEN st.config.settings ELSE EmptyDict

\* get_window_colors(self)
get_window_colors(st) ==
    IF "window" \in st.config.keys THEN st.config.window ELSE DefaultWindow

\* A path is the sequence of its components; os.path.dirname drops the last.
DirName(path) == SubSeq(path, 1, Len(path) - 1)

\* DEFAULT_CONFIG_PATH: APP_ROOT/config/colors.json
ConfigPath == <<"app", "config", "colors.json">>

\* the targets a caller gives save_config: a file in a directory that may be
\* missing, and a file name without a directory
OtherPaths == {<<"backup", "colors.json">>, <<"colors.json">>}

\* save_config(self, path) with a path given: the instance, the configuration
\* file and the rest of the file system afterwards.  e.files maps the targets
\* to their files, e.dirs is the set of their directories that exist.
save_config_path(st, dsk, e, path, w) ==
    LET save_path == IF path = <<>> THEN ConfigPath ELSE path
        dir == DirName(save_path)
        unchanged == [store |-> st, disk |-> dsk, env |-> e, raised |-> TRUE]
        cfg == [st.config EXCEPT !.keys = @ \cup {"modules"},
                                 !.modules = st.module_colors]
        st2 == Store(cfg, st.module_colors, TRUE)
    IN  IF save_path = ConfigPath
        THEN LET r == save_config(st, dsk, CHOOSE f \in FailModes(dsk, w) : TRUE)
             IN  [store |-> r.store, disk |-> r.disk, env |-> e, raised |-> r.raised]
        ELSE IF dir = <<>>
        THEN \* os.makedirs("") raises FileNotFoundError
             unchanged
        ELSE IF dir \notin e.dirs /\ ~w
        THEN \* os.makedirs fails
             unchanged
        ELSE LET e1 == [e EXCEPT !.dirs = @ \cup {dir}] IN
             IF ~w
             THEN \* open(save_path, 'w') fails
                  [store |-> st2, disk |-> dsk, env |-> e1, raised |-> TRUE]
             ELSE [store |-> st2, disk |-> dsk,
                   env |-> [e1 EXCEPT !.files[save_path] = ObjectFile(JsonDump(cfg))],
                   raised |-> FALSE]

\* the built-in table of register_module, lines 172-177
module_themes ==
    [n \in {"Dashboard", "System Status", "Git Manager", "Log"} |->
        CASE n = "Dashboard"     -> [bg_color |-> "#ffffff", fg_color |-> "#2c3e50"]
          [] n = "System Status" -> [bg_color |-> "#1a1a2e", fg_color |-> "#00d4ff"]
          [] n = "Git Manager"   -> [bg_color |-> "#0d1117", fg_color |-> "#58a6ff"]
          [] n = "Log"           -> [bg_color |-> "#000000", fg_color |-> "#00ff00"]]

\* a parameter with a default value: the default when the caller passes nothing
Arg(passed, default) == IF passed = Omitted THEN default ELSE passed

\* the caller's defaults taking precedence over the table
ThemePair_caller_first(name, bg, fg) ==
    LET theme_colors == IF name \in DOMAIN module_themes
                        THEN module_themes[name]
                        ELSE [bg_color |-> "#ffffff", fg_color |-> "#000000"]
    IN  [bg_color |-> Arg(bg, theme_colors["bg_color"]),
         fg_color |-> Arg(fg, theme_colors["fg_color"])]

\* lines 180-182 and 186-189 of register_module: the pair that is inserted
ThemePair(name, bg, fg) ==
    LET default_bg   == Arg(bg, "#ffffff")
        default_fg   == Arg(fg, "#000000")
        theme_colors == IF name \in DOMAIN module_themes
                        THEN module_themes[name] ELSE EmptyDict
        theme_bg     == IF "bg_color" \in DOMAIN theme_colors
                        THEN theme_colors["bg_color"] ELSE default_bg
        theme_fg     == IF "fg_color" \in DOMAIN theme_colors
                        THEN theme_colors["fg_color"] ELSE default_fg
    IN  [bg_color |-> theme_bg, fg_color |-> theme_fg]

\* register_module without the test of line 184
register_module_overwrite(st, dsk, name, bg, fg, fail) ==
    save_config(
        WithModuleColors(st, Put(st.module_colors, name, ThemePair(name, bg, fg))),
        dsk, fail)

\* register_module(self, module_name, default_bg="#ffffff", default_fg="#000000")
register_module(st, dsk, name, bg, fg, fail) ==
    IF name \notin DOMAIN st.module_colors
    THEN save_config(
            WithModuleColors(st, Put(st.module_colors, name, ThemePair(name, bg, fg))),
            dsk, fail)
    ELSE Outcome(st, dsk, FALSE)

\* reset_to_defaults without lines 229-232: the window colours are kept
reset_to_defaults_keep_window(st, dsk, fail) ==
    save_config(
        Store([st.config EXCEPT !.keys = @ \cup {"modules"}, !.modules = EmptyDict],
              EmptyDict, FALSE),
        dsk, fail)

\* reset_to_defaults(self)
reset_to_defaults(st, dsk, fail) ==
    LET cfg == [st.config EXCEPT !.keys = @ \cup {"modules", "window"},
                                 !.modules = EmptyDict,
                                 !.window = DefaultWindow]
    IN  \* two new dicts: self.module_colors and self.config["modules"] are
        \* distinct objects until save_config assigns one to the other
        save_config(Store(cfg, EmptyDict, FALSE), dsk, fail)

\* set_window_color creating an empty window entry when there is none
set_window_color_no_default(st, dsk, chan, val, auto_save, fail) ==
    LET window == IF "window" \notin st.config.keys THEN EmptyDict
                  ELSE st.config.window
        st1 == [st EXCEPT !.config = [@ EXCEPT !.keys = @ \cup {"window"},
                                               !.window = Put(window, chan, val)]]
    IN  IF auto_save THEN save_config(st1, dsk, fail) ELSE Outcome(st1, dsk, FALSE)

\* set_window_color(self, color_type, color_value, auto_save=True)
set_window_color(st, dsk, chan, val, auto_save, fail) ==
    LET window == IF "window" \notin st.config.keys THEN DefaultWindow
                  ELSE st.config.window
        cfg == [st.config EXCEPT !.keys = @ \cup {"window"},
                                 !.window = Put(window, chan, val)]
        st1 == [st EXCEPT !.config = cfg]
    IN  IF auto_save THEN save_config(st1, dsk, fail) ELSE Outcome(st1, dsk, FALSE)

\* update_settings assigning the argument instead of merging it
update_settings_replace(st, dsk, settings, fail) ==
    save_config([st EXCEPT !.config = [@ EXCEPT !.keys = @ \cup {"settings"},
                                                !.settings = settings]],
                dsk, fail)

\* update_settings(self, settings)
update_settings(st, dsk, settings, fail) ==
    LET old == IF "settings" \notin st.config.keys THEN EmptyDict
               ELSE st.config.settings
        cfg == [st.config EXCEPT !.keys = @ \cup {"settings"},
                                 !.settings = Update(old, settings)]
    IN  save_config([st EXCEPT !.config = cfg], dsk, fail)

----------------------------------------------------------------------------
(* The Git Manager, src/modules/git_manager/git_manager.py *)

\* A file name is the sequence of its characters, a path below the scanned
\* root the sequence of its names; the root is <<>>.
Name(chars) == chars
GitMarker == <<".", "g", "i", "t">>

\* item.startswith(".")
StartsWithDot(name) == Len(name) > 0 /\ name[1] = "."

(* Bound on the depth of the directory trees that are scanned. *)
TreeDepth == 5

ChainNames == <<"a", "b", "c", "d", "e", "f", "g">>

\* the directory at depth k of a chain a/b/c/...
Chain(k) == [i \in 1..k |-> Name(<<ChainNames[i]>>)]

\* the directories of the fixture tree: a chain of TreeDepth directories, a
\* second directory at depth 1 and at depth 2, a hidden directory and a
\* directory inside it
TreeDirs ==
    {Chain(k) : k \in 1..TreeDepth}
    \cup {<<Name(<<"s">>)>>, <<Name(<<"a">>), Name(<<"t">>)>>,
          <<Name(<<".", "h">>)>>, <<Name(<<".", "h">>), Name(<<"x">>)>>}

\* a plain file in the root
TreeFiles == {<<Name(<<"n">>)>>}

\* the directories that cannot be listed: none or one
UnlistableChoices == {{}, {<<>>}, {Chain(1)}, {Chain(2)}}

\* os.listdir(path): the names in path, the .git of a repository among them
ListDir(path, gitdirs) ==
    {p[Len(p)] : p \in {q \in TreeDirs \cup TreeFiles :
                           Len(q) = Len(path) + 1 /\ DirName(q) = path}}
    \cup (IF path \in gitdirs THEN {GitMarker} ELSE {})

\* os.path.isdir
IsDir(path, gitdirs) ==
    \/ path \in TreeDirs
    \/ Len(path) > 0 /\ path[Len(path)] = GitMarker /\ DirName(path) \in gitdirs

\* the outcome of subprocess.run: the command exits with a code and an
\* output, runs into the timeout, or cannot be started
Exit(code, out) == [kind |-> "exit", code |-> code, out |-> out]
TimedOut == [kind |-> "timeout", code |-> 0, out |-> <<>>]
NotStarted == [kind |-> "oserror", code |-> 0, out |-> <<>>]
\* the command is not run
NotRun == [kind |-> "notrun", code |-> 0, out |-> <<>>]

\* str.strip() of an output given as the sequence of its words and white space
IsSpace(c) == c \in {" ", "\n", "\t"}

RECURSIVE LStrip(_)
LStrip(out) ==
    IF out # <<>> /\ IsSpace(Head(out)) THEN LStrip(Tail(out)) ELSE out

RECURSIVE RStrip(_)
RStrip(out) ==
    IF out # <<>> /\ IsSpace(out[Len(out)])
    THEN RStrip(SubSeq(out, 1, Len(out) - 1)) ELSE out

Strip(out) == RStrip(LStrip(out))

Unknown == <<"Unknown">>

\* _get_branch_name without the except clause: a timeout or a command that
\* cannot be started leaves the function as an exception
get_branch_name_no_except(run1, run2) ==
    IF run1.kind # "exit" THEN [branch |-> Unknown, raised |-> TRUE]
    ELSE IF run1.code = 0 THEN [branch |-> Strip(run1.out), raised |-> FALSE]
    ELSE IF run2.kind # "exit" THEN [branch |-> Unknown, raised |-> TRUE]
    ELSE IF run2.code = 0
         THEN [branch |-> <<"detached-">> \o Strip(run2.out), raised |-> FALSE]
    ELSE [branch |-> Unknown, raised |-> FALSE]

\* _get_branch_name(self, repo_path): run1 is the outcome of
\* git rev-parse --abbrev-ref HEAD, run2 that of git rev-parse --short HEAD
get_branch_name(run1, run2) ==
    IF run1.kind # "exit" THEN [branch |-> Unknown, raised |-> FALSE]
    ELSE IF run1.code = 0 THEN [branch |-> Strip(run1.out), raised |-> FALSE]
    ELSE IF run2.kind # "exit" THEN [branch |-> Unknown, raised |-> FALSE]
    ELSE IF run2.code = 0
         THEN [branch |-> <<"detached-">> \o Strip(run2.out), raised |-> FALSE]
    ELSE [branch |-> Unknown, raised |-> FALSE]

\* the try of search_directory in the outermost call only
CatchesPermissionError_root_only(depth) == depth = 0

\* the frames of search_directory whose try catches PermissionError: all
CatchesPermissionError(depth) == TRUE

\* search_directory(path, depth) of _find_all_git_repositories: repos is the
\* list built so far; the result is the list afterwards and whether a
\* PermissionError leaves the call
RECURSIVE search_directory(_, _, _, _, _, _)
RECURSIVE ScanItems(_, _, _, _, _, _, _)

\* the loop over os.listdir(path), items being the names not yet visited
ScanItems(items, path, depth, repos, gitdirs, unlistable, branch) ==
    IF items = {} THEN [repos |-> repos, raised |-> FALSE]
    ELSE LET item == CHOOSE i \in items : TRUE
             rest == items \ {item}
             item_path == Append(path, item)
         IN  IF StartsWithDot(item) \/ ~IsDir(item_path, gitdirs)
             THEN ScanItems(rest, path, depth, repos, gitdirs, unlistable, branch)
             ELSE LET found_paths == {repos[i].path : i \in 1..Len(repos)}
                      repos1 ==
                          IF IsDir(Append(item_path, GitMarker), gitdirs)
                             /\ item_path \notin found_paths
                          THEN Append(repos, [path |-> item_path, name |-> item,
                                              branch |-> branch])
                          ELSE repos
                      sub == search_directory(item_path, depth + 1, repos1,
                                              gitdirs, unlistable, branch)
                  IN  IF sub.raised THEN sub
                      ELSE ScanItems(rest, path, depth, sub.repos, gitdirs,
                                     unlistable, branch)

search_directory(path, depth, repos, gitdirs, unlistable, branch) ==
    IF depth > 3 THEN [repos |-> repos, raised |-> FALSE]
    ELSE LET body == IF path \in unlistable
                     THEN [repos |-> repos, raised |-> TRUE]
                     ELSE ScanItems(ListDir(path, gitdirs), path, depth, repos,
                                    gitdirs, unlistable, branch)
         IN  IF body.raised /\ CatchesPermissionError(depth)
             THEN [repos |-> body.repos, raised |-> FALSE]
             ELSE body

\* _find_all_git_repositories(self, root_path)
find_all_git_repositories(gitdirs, unlistable, branch) ==
    search_directory(<<>>, 0, <<>>, gitdirs, unlistable, branch)

\* the outcome of running a script: exit code, stdout and stderr
ScriptExit(code, out, err) ==
    [kind |-> "exit", code |-> code, out |-> out, err |-> err]
ScriptTimedOut == [kind |-> "timeout", code |-> 0, out |-> <<>>, err |-> <<>>]
ScriptNotStarted == [kind |-> "oserror", code |-> 0, out |-> <<>>, err |-> <<>>]
ScriptNotRun == [kind |-> "notrun", code |-> 0, out |-> <<>>, err |-> <<>>]

\* sep.join(parts), the text being the sequence of its pieces
RECURSIVE Join(_, _)
Join(parts, sep) ==
    IF parts = <<>> THEN <<>>
    ELSE IF Len(parts) = 1 THEN Head(parts)
    ELSE Head(parts) \o <<sep>> \o Join(Tail(parts), sep)

showinfo(title, text) == [kind |-> "showinfo", title |-> title, text |-> text]
showerror(title, text) == [kind |-> "showerror", title |-> title, text |-> text]

\* _execute_script with the handler of TimeoutExpired only
execute_script_timeout_only(task_data, repos, run) ==
    IF run.kind = "timeout"
    THEN [dialogs |-> <<showerror("Error", <<"Script execution timed out (60s)">>)>>,
          raised |-> FALSE]
    ELSE IF run.kind = "oserror"
    THEN [dialogs |-> <<>>, raised |-> TRUE]
    ELSE LET status == IF run.code = 0 THEN <<"OK">>
                       ELSE <<"Error: ", ToString(run.code)>>
             repo_names == Join([i \in 1..Len(repos) |-> repos[i].name], ", ")
             text0 == <<"Repo: ">> \o repo_names \o <<" | ">> \o status
             text1 == IF run.out # <<>> THEN text0 \o <<"\n\n">> \o run.out
                      ELSE text0
             text2 == IF run.err # <<>> THEN text1 \o <<"\n\nError:\n">> \o run.err
                      ELSE text1
         IN  [dialogs |-> <<showinfo("Script Result", text2)>>, raised |-> FALSE]

\* _execute_script(self, task_data, repos): the dialogs it opens and whether
\* an exception leaves it
execute_script(task_data, repos, run) ==
    IF run.kind = "timeout"
    THEN [dialogs |-> <<showerror("Error", <<"Script execution timed out (60s)">>)>>,
          raised |-> FALSE]
    ELSE IF run.kind = "oserror"
    THEN [dialogs |-> <<showerror("Error", <<"Error executing script: ", "OSError">>)>>,
          raised |-> FALSE]
    ELSE LET status == IF run.code = 0 THEN <<"OK">>
                       ELSE <<"Error: ", ToString(run.code)>>
             repo_names == Join([i \in 1..Len(repos) |-> repos[i].name], ", ")
             text0 == <<"Repo: ">> \o repo_names \o <<" | ">> \o status
             text1 == IF run.out # <<>> THEN text0 \o <<"\n\n">> \o run.out
                      ELSE text0
             text2 == IF run.err # <<>> THEN text1 \o <<"\n\nError:\n">> \o run.err
                      ELSE text1
         IN  [dialogs |-> <<showinfo("Script Result", text2)>>, raised |-> FALSE]

\* _launch_task(self, task_data): the script runs when the task has one and
\* the file exists
launch_task(task_data, exists, run) ==
    IF task_data.script_path # <<>> /\ exists
    THEN execute_script(task_data, task_data.git_repos, run)
    ELSE [dialogs |-> <<>>, raised |-> FALSE]

----------------------------------------------------------------------------
(* The Git Manager: the task list and the task file *)

\* A task holds its name, root_path and script_path as texts (the words and
\* white space of the string); script_path None is the empty text.  In the
\* task file a string is [null |-> FALSE, str |-> text], null is JsonNull.
JsonNull == [null |-> TRUE, str |-> <<>>]
JsonString(text) == [null |-> FALSE, str |-> text]

\* json.dump of a task, json.load of a task object
TaskDump(task) ==
    [name        |-> JsonString(task.name),
     root_path   |-> JsonString(task.root_path),
     script_path |-> IF task.script_path = <<>> THEN JsonNull
                     ELSE JsonString(task.script_path),
     git_repos   |-> task.git_repos]

TaskLoad(j) ==
    [name        |-> j.name.str,
     root_path   |-> j.root_path.str,
     script_path |-> IF j.script_path.null THEN <<>> ELSE j.script_path.str,
     git_repos   |-> j.git_repos]

TasksDump(tasks) == [i \in 1..Len(tasks) |-> TaskDump(tasks[i])]
TasksLoad(json) == [i \in 1..Len(json) |-> TaskLoad(json[i])]

\* the task file: absent, not JSON, or a JSON array
NoTaskFile == [kind |-> "absent", json |-> <<>>]
MalformedTaskFile == [kind |-> "malformed", json |-> <<>>]
TaskFile(json) == [kind |-> "array", json |-> json]

\* _load_tasks(self) on self.tasks = []
load_tasks(file) == IF file.kind = "array" THEN TasksLoad(file.json) ELSE <<>>

\* _save_tasks(self): an IOError of open is swallowed
save_tasks(tasks, file, w) == IF w THEN TaskFile(TasksDump(tasks)) ELSE file

\* the delete button of a task: the task_index _create_task_button was given
TaskButton(task_data, task_index) == [task |-> task_data, index |-> task_index]

\* _create_task_button(self, task_data, task_index)
create_task_button(buttons, task_data, task_index) ==
    Append(buttons, TaskButton(task_data, task_index))

\* _recreate_all_task_buttons(self)
recreate_all_task_buttons(tasks) ==
    [i \in 1..Len(tasks) |-> TaskButton(tasks[i], i - 1)]

\* the task is appended although the scan found no repository
add_task_without_repos(tasks, file, w, buttons, dialog, git_repos) ==
    LET name == Strip(dialog.name_entry)
        root_path == Strip(dialog.root_entry)
        script_path == Strip(dialog.script_entry)
        refused(why) == [tasks |-> tasks, file |-> file, buttons |-> buttons,
                         warning |-> why]
    IN  IF name = <<>> THEN refused("Please enter a name for the task.")
        ELSE IF root_path = <<>> THEN refused("Please select a root path.")
        ELSE IF ~dialog.root_exists THEN refused("Root path does not exist.")
        ELSE IF script_path # <<>> /\ ~dialog.script_exists
             THEN refused("Script path does not exist.")
        ELSE LET task_data == [name |-> name, root_path |-> root_path,
                               script_path |-> script_path,
                               git_repos |-> git_repos]
                 tasks1 == Append(tasks, task_data)
             IN  [tasks |-> tasks1,
                  file |-> save_tasks(tasks1, file, w),
                  buttons |-> create_task_button(buttons, task_data,
                                                 Len(tasks1) - 1),
                  warning |-> "-"]

\* add_task() of _show_add_task_dialog: the list, the file and the buttons
\* afterwards and the warning shown.  dialog holds the three entries and
\* whether the stripped root and script paths exist, git_repos is the result
\* of the scan of the root
add_task(tasks, file, w, buttons, dialog, git_repos) ==
    LET name == Strip(dialog.name_entry)
        root_path == Strip(dialog.root_entry)
        script_path == Strip(dialog.script_entry)
        refused(why) == [tasks |-> tasks, file |-> file, buttons |-> buttons,
                         warning |-> why]
    IN  IF name = <<>> THEN refused("Please enter a name for the task.")
        ELSE IF root_path = <<>> THEN refused("Please select a root path.")
        ELSE IF ~dialog.root_exists THEN refused("Root path does not exist.")
        ELSE IF script_path # <<>> /\ ~dialog.script_exists
             THEN refused("Script path does not exist.")
        ELSE IF git_repos = <<>> THEN refused("No git repositories found in:")
        ELSE LET task_data == [name |-> name, root_path |-> root_path,
                               script_path |-> script_path,
                               git_repos |-> git_repos]
                 tasks1 == Append(tasks, task_data)
             IN  [tasks |-> tasks1,
                  file |-> save_tasks(tasks1, file, w),
                  buttons |-> create_task_button(buttons, task_data,
                                                 Len(tasks1) - 1),
                  warning |-> "-"]

\* list.pop(i) for an index from 0 on: the list afterwards
Pop(list, i) == SubSeq(list, 1, i) \o SubSeq(list, i + 2, Len(list))

\* _delete_task that destroys the frame of the button and recreates nothing
delete_task_no_recreate(tasks, file, w, buttons, k, confirm) ==
    LET task_index == buttons[k].index IN
    IF ~confirm
    THEN [tasks |-> tasks, file |-> file, buttons |-> buttons, raised |-> FALSE]
    ELSE IF task_index >= Len(tasks)
    THEN [tasks |-> tasks, file |-> file, buttons |-> buttons, raised |-> TRUE]
    ELSE LET tasks1 == Pop(tasks, task_index)
         IN  [tasks |-> tasks1,
              file |-> save_tasks(tasks1, file, w),
              buttons |-> Pop(buttons, k - 1),
              raised |-> FALSE]

\* _delete_task(self, task_index, btn_frame) of the k-th button, the answer
\* to the question being confirm
delete_task(tasks, file, w, buttons, k, confirm) ==
    LET task_index == buttons[k].index IN
    IF ~confirm
    THEN [tasks |-> tasks, file |-> file, buttons |-> buttons, raised |-> FALSE]
    ELSE IF task_index >= Len(tasks)
    THEN [tasks |-> tasks, file |-> file, buttons |-> buttons, raised |-> TRUE]
    ELSE LET tasks1 == Pop(tasks, task_index)
         IN  [tasks |-> tasks1,
              file |-> save_tasks(tasks1, file, w),
              buttons |-> recreate_all_task_buttons(tasks1),
              raised |-> FALSE]

----------------------------------------------------------------------------
(* The App and its colour panel, src/core/qt_core.py *)

\* A text is the sequence of its pieces: the underscores, each a piece "_",
\* and the runs of other characters between them.  Str is the string.
RECURSIVE Str(_)
Str(text) == IF text = <<>> THEN "" ELSE Head(text) \o Str(Tail(text))

\* text.split("_"): the texts between the underscores
RECURSIVE Split(_)
Split(text) ==
    IF text = <<>> THEN << <<>> >>
    ELSE IF Head(text) = "_" THEN << <<>> >> \o Split(Tail(text))
    ELSE LET r == Split(Tail(text))
         IN  << <<Head(text)>> \o Head(r) >> \o Tail(r)

\* text.replace("window_", "")
RECURSIVE ReplaceWindow(_)
ReplaceWindow(text) ==
    IF Len(text) >= 2 /\ text[1] = "window" /\ text[2] = "_"
    THEN ReplaceWindow(SubSeq(text, 3, Len(text)))
    ELSE IF text = <<>> THEN <<>>
    ELSE <<Head(text)>> \o ReplaceWindow(Tail(text))

BgColor == <<"bg", "_", "color">>
FgColor == <<"fg", "_", "color">>

\* a module instance: its name and its attributes
Module(name, bg, fg) ==
    [name |-> name, attrs |-> [bg_color |-> bg, fg_color |-> fg]]

\* getattr(module, attr, default)
GetAttr(module, attr, default) ==
    IF attr \in DOMAIN module.attrs THEN module.attrs[attr] ELSE default

\* setattr(module, attr, value)
SetAttr(module, attr, value) ==
    [module EXCEPT !.attrs = Put(@, attr, value)]

\* self.color_vars[key] = color_var on a dict kept in insertion order
SetVar(color_vars, key, value) ==
    IF \E i \in 1..Len(color_vars) : color_vars[i].key = key
    THEN [i \in 1..Len(color_vars) |->
             IF color_vars[i].key = key THEN [key |-> key, val |-> value]
             ELSE color_vars[i]]
    ELSE Append(color_vars, [key |-> key, val |-> value])

\* the key _create_color_entry gives the field of a module and an attribute
ModuleKey(module, color_attr) == module.name \o <<"_">> \o color_attr

\* the key _create_color_entry gives a field of the window section
WindowKey(color_attr) == <<"window", "_">> \o color_attr

\* the fields of the modules from index i on, added by _create_module_section
RECURSIVE ModuleFields(_, _, _)
ModuleFields(modules, i, color_vars) ==
    IF i > Len(modules) THEN color_vars
    ELSE LET module == modules[i]
         IN  IF module.name = <<>>
             THEN ModuleFields(modules, i + 1, color_vars)
             ELSE ModuleFields(modules, i + 1,
                     SetVar(SetVar(color_vars,
                                   ModuleKey(module, BgColor),
                                   GetAttr(module, "bg_color", "#ffffff")),
                            ModuleKey(module, FgColor),
                            GetAttr(module, "fg_color", "#ffffff")))

\* _populate_modules(self): the fields of the panel, self.color_vars
populate_modules(modules, st) ==
    LET window_colors == get_window_colors(st)
        window_bg == IF "bg_color" \in DOMAIN window_colors
                     THEN window_colors["bg_color"] ELSE "#00c8f9"
        window_fg == IF "fg_color" \in DOMAIN window_colors
                     THEN window_colors["fg_color"] ELSE "#ffffff"
        window == SetVar(SetVar(<<>>, WindowKey(<<"window", "_", "bg">>), window_bg),
                         WindowKey(<<"window", "_", "fg">>), window_fg)
    IN  ModuleFields(modules, 1, window)

\* get_module_colors(self, module_name)
get_module_colors(st, name) ==
    IF name \in DOMAIN st.module_colors THEN st.module_colors[name] ELSE EmptyDict

\* _apply_colors_to_module(self, module)
apply_colors_to_module(module, st) ==
    IF module.name = <<>> THEN module
    ELSE LET colors == get_module_colors(st, Str(module.name))
             m1 == IF "bg_color" \in DOMAIN colors
                   THEN SetAttr(module, "bg_color", colors["bg_color"]) ELSE module
         IN  IF "fg_color" \in DOMAIN colors
             THEN SetAttr(m1, "fg_color", colors["fg_color"]) ELSE m1

\* show_module(self, module) for the module at index i: the modules and
\* active_module afterwards
show_module(modules, i, st) ==
    [modules |-> [modules EXCEPT ![i] = apply_colors_to_module(@, st)],
     active  |-> i]

\* the state _apply_colors works on: the modules, the store and the file
Applying(modules, oc) ==
    [modules |-> modules, store |-> oc.store, disk |-> oc.disk, raised |-> oc.raised]

\* the inner loop of _apply_colors, lines 1220-1235, from module i on
RECURSIVE ApplyToModules(_, _, _, _, _, _)
ApplyToModules(a, i, module_name, color_attr, value, fail) ==
    IF a.raised \/ i > Len(a.modules) THEN a
    ELSE IF a.modules[i].name = module_name
    THEN LET modules == [a.modules EXCEPT ![i] = SetAttr(@, Str(color_attr), value)]
             oc == set_module_color(a.store, a.disk, Str(module_name),
                                    Str(color_attr), value, TRUE, fail)
         IN  ApplyToModules(Applying(modules, oc), i + 1, module_name,
                            color_attr, value, fail)
    ELSE ApplyToModules(a, i + 1, module_name, color_attr, value, fail)

\* the loop of _apply_colors over self.color_vars, lines 1204-1235, from
\* field k on
RECURSIVE ApplyFields(_, _, _, _)
ApplyFields(a, color_vars, k, fail) ==
    IF a.raised \/ k > Len(color_vars) THEN a
    ELSE LET parts == Split(color_vars[k].key)
             module_name == Join(SubSeq(parts, 1, Len(parts) - 1), "_")
             color_attr == parts[Len(parts)]
             value == color_vars[k].val
         IN  IF module_name = <<"window">>
             THEN ApplyFields(
                     Applying(a.modules,
                              set_window_color(a.store, a.disk,
                                               Str(ReplaceWindow(color_attr)),
                                               value, TRUE, fail)),
                     color_vars, k + 1, fail)
             ELSE ApplyFields(
                     ApplyToModules(a, 1, module_name, color_attr, value, fail),
                     color_vars, k + 1, fail)

\* _apply_colors(self): the modules, active_module being the index of the
\* module shown (0 for None), the store and the file afterwards
apply_colors(modules, active, color_vars, st, dsk, fail) ==
    LET a == ApplyFields(Applying(modules, Outcome(st, dsk, FALSE)),
                         color_vars, 1, fail)
    IN  IF a.raised \/ active = 0 THEN a
        ELSE [a EXCEPT !.modules = show_module(a.modules, active, a.store).modules]

\* _register_modules_with_color_config(self), from module i on
RECURSIVE register_modules_with_color_config(_, _, _, _)
register_modules_with_color_config(modules, i, oc, fail) ==
    IF oc.raised \/ i > Len(modules) THEN oc
    ELSE LET module == modules[i]
         IN  IF module.name = <<>>
             THEN register_modules_with_color_config(modules, i + 1, oc, fail)
             ELSE register_modules_with_color_config(modules, i + 1,
                     register_module(oc.store, oc.disk, Str(module.name),
                                     GetAttr(module, "bg_color", "#ffffff"),
                                     GetAttr(module, "fg_color", "#000000"), fail),
                     fail)

\* _create_menu_bar(self): a check button, set, for every module of self.modules
create_menu_bar(modules) ==
    [n \in {Str(modules[i].name) : i \in {j \in 1..Len(modules) :
                                            modules[j].name # <<>>}} |-> 1]

\* the loop of lines 626-637 over the modules from i on: the colours are
\* applied to every module that is not switched off
RECURSIVE SidebarButtons(_, _, _, _)
SidebarButtons(modules, i, checkbuttons, st) ==
    IF i > Len(modules) THEN modules
    ELSE LET module_name == Str(modules[i].name)
         IN  IF module_name \in DOMAIN checkbuttons /\ checkbuttons[module_name] = 0
             THEN SidebarButtons(modules, i + 1, checkbuttons, st)
             ELSE SidebarButtons([modules EXCEPT ![i] = apply_colors_to_module(@, st)],
                                 i + 1, checkbuttons, st)

\* enabled_modules of lines 652-659, as indices
EnabledModules(modules, checkbuttons) ==
    SelectSeq([i \in 1..Len(modules) |-> i],
              LAMBDA i : /\ modules[i].name # <<>>
                         /\ Str(modules[i].name) \in DOMAIN checkbuttons
                         /\ checkbuttons[Str(modules[i].name)] = 1)

\* build_tabs(self): the colours are applied to every module
build_tabs(modules, st) ==
    [i \in 1..Len(modules) |-> apply_colors_to_module(modules[i], st)]

\* build_navigation(self): the modules and active_module afterwards
build_navigation(single, modules, active, checkbuttons, st) ==
    IF single THEN [modules |-> build_tabs(modules, st), active |-> active]
    ELSE LET ms == SidebarButtons(modules, 1, checkbuttons, st)
             enabled_modules == EnabledModules(ms, checkbuttons)
         IN  IF enabled_modules # <<>>
             THEN show_module(ms, enabled_modules[1], st)
             ELSE [modules |-> ms, active |-> active]

\* ColorCustomizationPanel.hide(self): on_close is dropped, not called
hide(a) == [a EXCEPT !.placed = FALSE, !.on_close = FALSE]

\* _open_color_panel(self)
open_color_panel(a, st) ==
    [a EXCEPT !.panel = TRUE,
              !.on_close = IF a.panel THEN a.on_close ELSE TRUE,
              !.placed = TRUE,
              !.color_vars = populate_modules(a.modules, st),
              !.edits = 0,
              !.is_open = TRUE]

\* _close_color_panel(self)
close_color_panel(a) ==
    LET a1 == IF a.panel THEN [hide(a) EXCEPT !.panel = FALSE] ELSE a
    IN  [a1 EXCEPT !.is_open = FALSE]

\* _toggle_color_panel(self)
toggle_color_panel(a, st) ==
    IF a.is_open THEN close_color_panel(a) ELSE open_color_panel(a, st)

----------------------------------------------------------------------------
(* Inputs *)

\* one name of the built-in table and one outside it
ModuleNames == {"Dashboard", "Notes"}

Colours == {"#ff0000", "#0000ff"}

\* auto_save as the caller gives it
AutoSaveArgs == {Omitted, "True", "False"}
AutoSave(a) == Arg(a, "True") = "True"

\* default_bg and default_fg as the caller of register_module gives them
DefaultBgArgs == {Omitted, "#ff0000"}
DefaultFgArgs == {Omitted, "#0000ff"}

Partials ==
    {[auto_apply |-> FALSE],
     [auto_apply |-> TRUE, preview_changes |-> FALSE]}

\* the JSON objects the configuration file may hold before the program first runs
InitialDocs ==
    {[keys        |-> TopKeys,
      version     |-> "1.0",
      description |-> "Color configuration for application modules",
      modules     |-> {<<"Dashboard", {<<"bg_color", "#ff0000">>,
                                       <<"fg_color", "#0000ff">>}>>},
      window      |-> {<<"bg_color", "#00c8f9">>, <<"fg_color", "#ffffff">>},
      settings    |-> {<<"auto_apply", "false">>, <<"preview_changes", "true">>}],
     \* no modules section
     [keys        |-> TopKeys \ {"modules"},
      version     |-> "1.0",
      description |-> "Color configuration for application modules",
      modules     |-> {},
      window      |-> {<<"bg_color", "#00c8f9">>, <<"fg_color", "#ffffff">>},
      settings    |-> {<<"auto_apply", "true">>, <<"preview_changes", "true">>}],
     \* no window and no settings section, a module with one channel
     [keys        |-> {"modules"},
      version     |-> "",
      description |-> "",
      modules     |-> {<<"Notes", {<<"fg_color", "#0000ff">>}>>},
      window      |-> {},
      settings    |-> {}],
     \* {}
     [keys |-> {}, version |-> "", description |-> "", modules |-> {},
      window |-> {}, settings |-> {}]}

InitialFiles ==
    {AbsentFile, File("malformed"), File("undecodable"), File("nonobject")}
    \cup {ObjectFile(j) : j \in InitialDocs}

\* the outcomes of git rev-parse --abbrev-ref HEAD: a branch name, the
\* literal HEAD of a detached checkout, an error exit, timeout, no git
FirstRuns ==
    {Exit(0, <<"main", "\n">>), Exit(0, <<"HEAD", "\n">>), Exit(128, <<>>),
     TimedOut, NotStarted}

\* the outcomes of git rev-parse --short HEAD
SecondRuns == {Exit(0, <<"abc1234", "\n">>), Exit(128, <<>>), TimedOut, NotStarted}

\* the outcomes of the branch commands during a scan
ScanRuns ==
    {<<Exit(0, <<"main", "\n">>), NotRun>>,
     <<Exit(0, <<"HEAD", "\n">>), NotRun>>,
     <<Exit(128, <<>>), Exit(0, <<"abc1234", "\n">>)>>}

ScriptRuns ==
    {ScriptExit(0, <<"done", "\n">>, <<>>), ScriptExit(0, <<>>, <<>>),
     ScriptExit(1, <<>>, <<"failed", "\n">>), ScriptTimedOut, ScriptNotStarted}

\* the tasks of the task file as add_task stores them: one with a script, one
\* without; each has a repository
ScriptTask ==
    [name |-> <<"build">>, root_path |-> <<"/repos">>,
     script_path |-> <<"/repos/s/run.sh">>,
     git_repos |-> <<[path |-> <<Name(<<"s">>)>>, name |-> Name(<<"s">>),
                      branch |-> <<"main">>]>>]
PlainTask ==
    [name |-> <<"notes">>, root_path |-> <<"/repos">>, script_path |-> <<>>,
     git_repos |-> <<[path |-> Chain(1), name |-> Name(<<"a">>),
                      branch |-> <<"main">>]>>]
InitialTasks == <<ScriptTask, PlainTask>>

\* the task file at the start, as json.dump writes it
InitialTaskFiles ==
    {NoTaskFile, MalformedTaskFile, TaskFile(<<>>),
     TaskFile(<<[name        |-> [null |-> FALSE, str |-> <<"build">>],
                 root_path   |-> [null |-> FALSE, str |-> <<"/repos">>],
                 script_path |-> [null |-> FALSE, str |-> <<"/repos/s/run.sh">>],
                 git_repos   |-> ScriptTask.git_repos],
                [name        |-> [null |-> FALSE, str |-> <<"notes">>],
                 root_path   |-> [null |-> FALSE, str |-> <<"/repos">>],
                 script_path |-> [null |-> TRUE, str |-> <<>>],
                 git_repos   |-> PlainTask.git_repos]>>)}

\* what the user leaves in the entries of the add-task dialog
NameEntries == {<<>>, <<" ">>, <<" ", "deploy", " ">>}
RootEntries == {<<>>, <<"/repos", " ">>}
ScriptEntries == {<<>>, <<"/repos/s/run.sh">>}

\* the repositories below the root when a task is added
TaskTrees == {{}, {Chain(1)}, {Chain(1), <<Name(<<"s">>)>>}}

\* the modules a program registers: main.py's Dashboard and Git Manager, and
\* a module whose name holds an underscore
AppModules ==
    {Module(<<"Dashboard">>, "#ffffff", "#000000"),
     Module(<<"Git Manager">>, "#ffffff", "#000000"),
     Module(<<"Dashboard", "_", "bg">>, "#ffffff", "#000000")}

\* the arguments of App.register_module: a module or a list of modules
ModuleLists ==
    {<<m>> : m \in AppModules}
    \cup {<<Module(<<"Dashboard">>, "#ffffff", "#000000"),
            Module(<<"Git Manager">>, "#ffffff", "#000000")>>}

\* the colours a user enters in a field of the panel
EnteredColours == {"#ff0000"}

----------------------------------------------------------------------------
(* State *)

\* no file at the other targets, none of their directories exists
StoreEnv ==
    [files |-> [p \in OtherPaths |-> AbsentFile],
     dirs  |-> {}]

\* a GitManagerModule before any call: op is the last call, the other fields
\* its arguments, the environment it met and its outcome
NoGitManager ==
    [op |-> "none", tasks |-> <<>>, task |-> 0,
     gitdirs |-> {}, unlistable |-> {}, run1 |-> NotRun, run2 |-> NotRun,
     script |-> ScriptNotRun, exists |-> FALSE,
     repos |-> <<>>, branch |-> <<>>, dialogs |-> <<>>, raised |-> FALSE,
     file |-> NoTaskFile, file_writable |-> TRUE, built |-> FALSE,
     buttons |-> <<>>, name_entry |-> <<>>, root_entry |-> <<>>,
     script_entry |-> <<>>, root_exists |-> FALSE, script_exists |-> FALSE,
     warning |-> "-", button |-> 0, confirm |-> FALSE]

\* _color_config_instance is None; made counts the stores constructed so far
NoSingleton == [id |-> 0, made |-> 0]

\* no App, no DashboardModule, no LogModule has been constructed
NoApp ==
    [op |-> "none", exists |-> FALSE, single |-> TRUE, modules |-> <<>>,
     checkbuttons |-> EmptyDict, built |-> FALSE, active |-> 0,
     panel |-> FALSE, on_close |-> FALSE, placed |-> FALSE, color_vars |-> <<>>,
     edits |-> 0, is_open |-> FALSE, raised |-> FALSE, applied |-> FALSE,
     fields |-> <<>>, mods |-> <<>>, window |-> DefaultWindow,
     colors |-> EmptyDict]
NoDashboard == [op |-> "none"]
NoLog == [op |-> "none"]

NoCall ==
    [op |-> "none", name |-> "-", chan |-> "-", val |-> "-", fg |-> "-",
     auto |-> "-", settings |-> EmptyDict, had |-> FALSE, dirty |-> FALSE,
     found |-> "-", after |-> "-", raised |-> FALSE, ret |-> "-",
     pair |-> EmptyDict, path |-> <<>>, inst |-> 0]

store == Store(config, module_colors, aliased)

\* the file does not hold the in-memory document
Dirty ==
    ~(/\ disk.kind = "object"
      /\ JsonLoad(disk.json) = config
      /\ config.modules = module_colors)

Init ==
    /\ alive = FALSE
    /\ config = EmptyConfig
    /\ module_colors = EmptyDict
    /\ aliased = FALSE
    /\ disk \in InitialFiles
    /\ readable = TRUE
    /\ writable = TRUE
    /\ last = NoCall
    /\ nops = 0
    /\ env = StoreEnv
    /\ gm = NoGitManager
    /\ singleton = NoSingleton
    /\ app = NoApp
    /\ timer = NoDashboard
    /\ watch = NoLog

\* the state after a call of a method with outcome r
Returns(r, call) ==
    /\ config' = r.store.config
    /\ module_colors' = r.store.module_colors
    /\ aliased' = r.store.aliased
    /\ disk' = r.disk
    /\ last' = [call EXCEPT !.raised = r.raised, !.dirty = Dirty]
    /\ nops' = nops + 1
    /\ UNCHANGED <<alive, readable, writable, env, gm, others>>

\* ColorConfig(): __init__ with the default path, lines 38-43.  The instance
\* replaces the one the program held; when the constructor raises there is none.
Construct ==
    /\ nops < MaxOps
    /\ \E fail \in FailModes(disk, writable) :
          LET r == load_config(disk, readable, fail) IN
          /\ alive' = ~r.raised
          /\ config' = IF r.raised THEN EmptyConfig ELSE r.store.config
          /\ module_colors' = IF r.raised THEN EmptyDict ELSE r.store.module_colors
          /\ aliased' = IF r.raised THEN FALSE ELSE r.store.aliased
          /\ disk' = r.disk
          /\ last' = [NoCall EXCEPT !.op = "construct",
                                    !.found = Found(disk, readable),
                                    !.after = last.op,
                                    !.raised = r.raised]
    /\ nops' = nops + 1
    /\ UNCHANGED <<readable, writable, env, gm, others>>

CallSaveConfig ==
    /\ alive /\ nops < MaxOps
    /\ \E fail \in FailModes(disk, writable) :
          Returns(save_config(store, disk, fail), [NoCall EXCEPT !.op = "save_config"])

CallGetModuleColor ==
    /\ alive /\ nops < MaxOps
    /\ \E name \in ModuleNames, chan \in Channels :
          LET r == get_module_color(store, name, chan) IN
          Returns(Outcome(r.store, disk, FALSE),
                  [NoCall EXCEPT !.op = "get_module_color",
                                 !.name = name, !.chan = chan,
                                 !.had = (name \in DOMAIN module_colors),
                                 !.ret = r.ret])

CallSetModuleColor ==
    /\ alive /\ nops < MaxOps
    /\ \E name \in ModuleNames, chan \in Channels, val \in Colours,
          auto \in AutoSaveArgs, fail \in FailModes(disk, writable) :
          Returns(set_module_color(store, disk, name, chan, val, AutoSave(auto), fail),
                  [NoCall EXCEPT !.op = "set_module_color",
                                 !.name = name, !.chan = chan, !.val = val,
                                 !.auto = auto,
                                 !.had = (name \in DOMAIN module_colors)])

CallRegisterModule ==
    /\ alive /\ nops < MaxOps
    /\ \E name \in ModuleNames, bg \in DefaultBgArgs,
          fg \in DefaultFgArgs, fail \in FailModes(disk, writable) :
          Returns(register_module(store, disk, name, bg, fg, fail),
                  [NoCall EXCEPT !.op = "register_module",
                                 !.name = name, !.val = bg, !.fg = fg,
                                 !.had = (name \in DOMAIN module_colors)])

CallResetToDefaults ==
    /\ alive /\ nops < MaxOps
    /\ \E fail \in FailModes(disk, writable) :
          Returns(reset_to_defaults(store, disk, fail),
                  [NoCall EXCEPT !.op = "reset_to_defaults"])

CallSetWindowColor ==
    /\ alive /\ nops < MaxOps
    /\ \E chan \in Channels, val \in Colours, auto \in AutoSaveArgs,
          fail \in FailModes(disk, writable) :
          Returns(set_window_color(store, disk, chan, val, AutoSave(auto), fail),
                  [NoCall EXCEPT !.op = "set_window_color",
                                 !.chan = chan, !.val = val, !.auto = auto,
                                 !.had = ("window" \in config.keys)])

CallUpdateSettings ==
    /\ alive /\ nops < MaxOps
    /\ \E settings \in Partials, fail \in FailModes(disk, writable) :
          Returns(update_settings(store, disk, settings, fail),
                  [NoCall EXCEPT !.op = "update_settings", !.settings = settings,
                                 !.had = ("settings" \in config.keys)])

CallGetWindowColors ==
    /\ alive /\ nops < MaxOps
    /\ Returns(Outcome(store, disk, FALSE),
               [NoCall EXCEPT !.op = "get_window_colors",
                              !.had = ("window" \in config.keys),
                              !.pair = get_window_colors(store)])

\* the environment: the permissions of the file and its directory change
Chmod ==
    /\ nops < MaxOps
    /\ \E r \in BOOLEAN, w \in BOOLEAN :
          /\ <<r, w>> # <<readable, writable>>
          /\ readable' = r
          /\ writable' = w
    /\ last' = [NoCall EXCEPT !.op = "chmod"]
    /\ nops' = nops + 1
    /\ UNCHANGED <<alive, config, module_colors, aliased, disk, env, gm, others>>

Next ==
    \/ Construct
    \/ CallSaveConfig
    \/ CallGetModuleColor
    \/ CallSetModuleColor
    \/ CallRegisterModule
    \/ CallResetToDefaults
    \/ CallSetWindowColor
    \/ CallUpdateSettings
    \/ CallGetWindowColors
    \/ Chmod

Spec == Init /\ [][Next]_vars

\* save_config(path) with a path given
CallSaveConfigPath ==
    /\ alive /\ nops < MaxOps
    /\ \E path \in OtherPaths :
          LET r == save_config_path(store, disk, env, path, writable) IN
          /\ config' = r.store.config
          /\ module_colors' = r.store.module_colors
          /\ aliased' = r.store.aliased
          /\ disk' = r.disk
          /\ env' = r.env
          /\ last' = [NoCall EXCEPT !.op = "save_config_path", !.path = path,
                                    !.raised = r.raised, !.dirty = Dirty]
    /\ nops' = nops + 1
    /\ UNCHANGED <<alive, readable, writable, gm, others>>

NextSaveAs ==
    \/ Next
    \/ CallSaveConfigPath

SpecSaveAs == Init /\ [][NextSaveAs]_vars

\* the program started where _load_config synthesizes the default document
InitFromDefault ==
    /\ Init
    /\ disk \in {AbsentFile, File("malformed")}

SpecFromDefault == InitFromDefault /\ [][Next]_vars

----------------------------------------------------------------------------
(* The singleton: get_color_config and reset_color_config *)

(* Bound on the number of stores the singleton functions construct in a run. *)
MaxInstances == 2

\* the config_path arguments: None, the default path, another path
ConfigPathArgs == {<<>>, ConfigPath, <<"backup", "colors.json">>}

\* get_color_config constructs a store whenever a path is given
NeedsConstruct_path_given(single, config_path) ==
    single.id = 0 \/ config_path # <<>>

\* the test of get_color_config: _color_config_instance is None
NeedsConstruct(single, config_path) == single.id = 0

\* get_color_config(config_path).  The variables of the store are those of
\* the instance the singleton holds.  The call that constructs the store is
\* made with the default path, omitted or given; a call made while the store
\* exists takes any path.
GetColorConfig ==
    \E config_path \in IF singleton.id = 0 THEN {<<>>, ConfigPath}
                       ELSE ConfigPathArgs :
       IF NeedsConstruct(singleton, config_path)
       THEN /\ singleton.made < MaxInstances
            /\ \E fail \in FailModes(disk, writable) :
                  LET r == load_config(disk, readable, fail) IN
                  /\ alive' = ~r.raised
                  /\ config' = IF r.raised THEN EmptyConfig ELSE r.store.config
                  /\ module_colors' = IF r.raised THEN EmptyDict
                                      ELSE r.store.module_colors
                  /\ aliased' = IF r.raised THEN FALSE ELSE r.store.aliased
                  /\ disk' = r.disk
                  /\ singleton' = IF r.raised THEN [singleton EXCEPT !.id = 0]
                                  ELSE [id |-> singleton.made + 1,
                                        made |-> singleton.made + 1]
                  /\ last' = [NoCall EXCEPT !.op = "get_color_config",
                                            !.path = config_path,
                                            !.after = last.op,
                                            !.had = last.dirty,
                                            !.found = Found(disk, readable),
                                            !.raised = r.raised,
                                            !.inst = singleton'.id]
            /\ UNCHANGED <<readable, writable, nops, env, gm, app, timer, watch>>
       ELSE /\ last' = [NoCall EXCEPT !.op = "get_color_config",
                                      !.path = config_path,
                                      !.after = last.op,
                                      !.inst = singleton.id]
            /\ UNCHANGED <<alive, config, module_colors, aliased, disk, readable,
                           writable, nops, env, gm, others>>

\* reset_color_config(): the singleton holds no store any more
ResetColorConfig ==
    /\ singleton' = [singleton EXCEPT !.id = 0]
    /\ alive' = FALSE
    /\ config' = EmptyConfig
    /\ module_colors' = EmptyDict
    /\ aliased' = FALSE
    /\ last' = [NoCall EXCEPT !.op = "reset_color_config",
                              !.after = last.op,
                              !.had = alive,
                              !.dirty = alive /\ Dirty]
    /\ UNCHANGED <<disk, readable, writable, nops, env, gm, app, timer, watch>>

NextSingleton ==
    \/ GetColorConfig
    \/ ResetColorConfig
    \/ CallSetModuleColor
    \/ CallSaveConfig

SpecSingleton == Init /\ [][NextSingleton]_vars

----------------------------------------------------------------------------
(* The App: calls and user events *)

(* Bound on the number of modules registered with an App. *)
MaxModules == 2

(* Bound on the number of values entered in the panel each time it is shown. *)
MaxEdits == 1

\* the App before a call or event: the record of the last one cleared
AppCall(op) ==
    [app EXCEPT !.op = op, !.raised = FALSE, !.applied = FALSE,
                !.fields = <<>>, !.mods = <<>>, !.window = DefaultWindow,
                !.colors = EmptyDict]

\* the state after a call that leaves the App a and the store and file of oc
AppReturns(a, oc) ==
    /\ app' = a
    /\ config' = oc.store.config
    /\ module_colors' = oc.store.module_colors
    /\ aliased' = oc.store.aliased
    /\ disk' = oc.disk
    /\ UNCHANGED <<alive, readable, writable, last, nops, env, gm, singleton,
                   timer, watch>>

\* App(single=...): __init__ takes the store from get_color_config()
AppConstruct ==
    /\ ~app.exists
    /\ singleton.id = 0 /\ singleton.made < MaxInstances
    /\ \E single \in BOOLEAN, fail \in FailModes(disk, writable) :
          LET r == load_config(disk, readable, fail) IN
          /\ alive' = ~r.raised
          /\ config' = IF r.raised THEN EmptyConfig ELSE r.store.config
          /\ module_colors' = IF r.raised THEN EmptyDict ELSE r.store.module_colors
          /\ aliased' = IF r.raised THEN FALSE ELSE r.store.aliased
          /\ disk' = r.disk
          /\ singleton' = IF r.raised THEN singleton
                          ELSE [id |-> singleton.made + 1,
                                made |-> singleton.made + 1]
          /\ app' = IF r.raised THEN [NoApp EXCEPT !.op = "App", !.raised = TRUE]
                    ELSE [NoApp EXCEPT !.op = "App", !.exists = TRUE,
                                       !.single = single,
                                       !.checkbuttons = create_menu_bar(<<>>)]
    /\ UNCHANGED <<readable, writable, last, nops, env, gm, timer, watch>>

\* App.register_module(module_or_list), called before run() as main.py does
AppRegisterModule ==
    /\ app.exists /\ ~app.built
    /\ \E list \in ModuleLists, fail \in FailModes(disk, writable) :
          /\ Len(app.modules) + Len(list) <= MaxModules
          /\ LET modules == app.modules \o list
                 oc == register_modules_with_color_config(
                           modules, 1, Outcome(store, disk, FALSE), fail)
             IN  AppReturns([AppCall("register_module") EXCEPT
                                !.modules = modules, !.raised = oc.raised], oc)

\* App.build_navigation(), called by run()
AppBuildNavigation ==
    /\ app.exists /\ ~app.built
    /\ LET r == build_navigation(app.single, app.modules, app.active,
                                 app.checkbuttons, store)
       IN  AppReturns([AppCall("build_navigation") EXCEPT
                          !.built = TRUE, !.modules = r.modules,
                          !.active = r.active],
                      Outcome(store, disk, FALSE))

\* a click on a sidebar button: show_module(m)
AppShowModule ==
    /\ app.exists /\ app.built /\ ~app.single
    /\ \E i \in 1..Len(app.modules) :
          LET r == show_module(app.modules, i, store)
          IN  AppReturns([AppCall("show_module") EXCEPT
                             !.modules = r.modules, !.active = r.active],
                         Outcome(store, disk, FALSE))

\* the menu entry "Customize Colors...": _toggle_color_panel
AppTogglePanel ==
    /\ app.exists
    /\ AppReturns([toggle_color_panel(AppCall("toggle_color_panel"), store)
                      EXCEPT !.op = "toggle_color_panel"],
                  Outcome(store, disk, FALSE))

\* a click on the X of the panel: ColorCustomizationPanel.hide
AppClickClose ==
    /\ app.exists /\ app.panel /\ app.placed
    /\ AppReturns(hide(AppCall("hide")), Outcome(store, disk, FALSE))

\* the user types a colour into a field of the panel
AppEditField ==
    /\ app.exists /\ app.panel /\ app.placed /\ app.edits < MaxEdits
    /\ \E k \in 1..Len(app.color_vars), value \in EnteredColours :
          AppReturns([AppCall("edit") EXCEPT
                         !.color_vars[k].val = value, !.edits = app.edits + 1],
                     Outcome(store, disk, FALSE))

\* _pick_color with tkcolorpicker installed and a colour chosen: the field is
\* set and, with the auto_apply setting, _apply_colors runs
AppPickColor ==
    /\ app.exists /\ app.panel /\ app.placed /\ app.edits < MaxEdits
    /\ \E k \in 1..Len(app.color_vars), value \in EnteredColours,
          fail \in FailModes(disk, writable) :
          LET color_vars == [app.color_vars EXCEPT ![k].val = value]
              settings == get_settings(store)
              auto_apply == IF "auto_apply" \in DOMAIN settings
                            THEN settings["auto_apply"] ELSE TRUE
              a == apply_colors(app.modules, app.active, color_vars, store,
                                disk, fail)
          IN  IF auto_apply
              THEN AppReturns([AppCall("pick_color") EXCEPT
                                  !.color_vars = color_vars,
                                  !.edits = app.edits + 1,
                                  !.modules = a.modules,
                                  !.raised = a.raised,
                                  !.applied = ~a.raised,
                                  !.fields = color_vars,
                                  !.mods = a.modules,
                                  !.window = get_window_colors(a.store),
                                  !.colors = a.store.module_colors],
                              a)
              ELSE AppReturns([AppCall("pick_color") EXCEPT
                                  !.color_vars = color_vars,
                                  !.edits = app.edits + 1],
                              Outcome(store, disk, FALSE))

\* the button "Apply & Restart": _apply_and_restart.  After os.execv the
\* process starts again: no App, no store.
AppApplyAndRestart ==
    /\ app.exists /\ app.panel /\ app.placed
    /\ \E fail \in FailModes(disk, writable) :
          LET a == apply_colors(app.modules, app.active, app.color_vars, store,
                                disk, fail)
          IN  IF a.raised
              THEN AppReturns([AppCall("apply_and_restart") EXCEPT
                                  !.modules = a.modules, !.raised = TRUE], a)
              ELSE /\ app' = [NoApp EXCEPT !.op = "apply_and_restart",
                                           !.applied = TRUE,
                                           !.fields = app.color_vars,
                                           !.mods = a.modules,
                                           !.window = get_window_colors(a.store),
                                           !.colors = a.store.module_colors]
                   /\ singleton' = [singleton EXCEPT !.id = 0]
                   /\ alive' = FALSE
                   /\ config' = EmptyConfig
                   /\ module_colors' = EmptyDict
                   /\ aliased' = FALSE
                   /\ disk' = a.disk
                   /\ UNCHANGED <<readable, writable, last, nops, env, gm,
                                  timer, watch>>

AppNext ==
    \/ AppConstruct
    \/ AppRegisterModule
    \/ AppBuildNavigation
    \/ AppShowModule
    \/ AppTogglePanel
    \/ AppClickClose
    \/ AppEditField
    \/ AppPickColor
    \/ AppApplyAndRestart

AppSpec == Init /\ [][AppNext]_vars

----------------------------------------------------------------------------
(* The Git Manager: calls *)

\* GitManagerModule(app) with a task file, below a root directory whose
\* tree does not change; no ColorConfig call is made
GitInit ==
    /\ alive = FALSE
    /\ config = EmptyConfig
    /\ module_colors = EmptyDict
    /\ aliased = FALSE
    /\ disk = AbsentFile
    /\ readable = TRUE
    /\ writable = TRUE
    /\ last = NoCall
    /\ nops = 0
    /\ env = StoreEnv
    /\ singleton = NoSingleton
    /\ app = NoApp
    /\ timer = NoDashboard
    /\ watch = NoLog
    /\ \E gitdirs \in SUBSET TreeDirs, unlistable \in UnlistableChoices :
          gm = [NoGitManager EXCEPT !.tasks = InitialTasks,
                                    !.gitdirs = gitdirs,
                                    !.unlistable = unlistable]

\* the instance and its environment, the record of the last call cleared
BeforeCall ==
    [NoGitManager EXCEPT !.tasks = gm.tasks, !.gitdirs = gm.gitdirs,
                         !.unlistable = gm.unlistable, !.file = gm.file,
                         !.file_writable = gm.file_writable,
                         !.built = gm.built, !.buttons = gm.buttons]

GitReturns(call) ==
    /\ gm' = call
    /\ UNCHANGED <<alive, config, module_colors, aliased, disk, readable,
                   writable, last, nops, env, others>>

\* _find_all_git_repositories(root_path)
Scan ==
    \E runs \in ScanRuns :
       LET b == get_branch_name(runs[1], runs[2])
           r == find_all_git_repositories(gm.gitdirs, gm.unlistable, b.branch)
       IN  GitReturns([BeforeCall EXCEPT !.op = "scan",
                                         !.run1 = runs[1], !.run2 = runs[2],
                                         !.repos = r.repos,
                                         !.raised = r.raised \/ b.raised])

\* _get_branch_name(repo_path)
GetBranchName ==
    \E run1 \in FirstRuns :
    \E run2 \in IF run1.kind = "exit" /\ run1.code # 0 THEN SecondRuns ELSE {NotRun} :
       LET r == get_branch_name(run1, run2)
       IN  GitReturns([BeforeCall EXCEPT !.op = "get_branch_name",
                                         !.run1 = run1, !.run2 = run2,
                                         !.branch = r.branch,
                                         !.raised = r.raised])

\* _launch_task(task_data) for a task of the list
LaunchTask ==
    \E i \in 1..Len(gm.tasks) :
    \E exists \in IF gm.tasks[i].script_path # <<>> THEN BOOLEAN ELSE {FALSE} :
    \E run \in IF gm.tasks[i].script_path # <<>> /\ exists THEN ScriptRuns
               ELSE {ScriptNotRun} :
       LET task_data == gm.tasks[i]
           r == launch_task(task_data, exists, run)
       IN  GitReturns([BeforeCall EXCEPT
               !.op = IF task_data.script_path # <<>> /\ exists
                      THEN "execute_script" ELSE "launch_task",
               !.task = i, !.exists = exists, !.script = run,
               !.dialogs = r.dialogs, !.raised = r.raised])

GitNext == Scan \/ GetBranchName \/ LaunchTask

GitSpec == GitInit /\ [][GitNext]_vars

\* a step that is a call of op
GitCalled(op) == gm'.op = op

----------------------------------------------------------------------------
(* Calls of the task list of the Git Manager *)

MaxTasks == 2

\* the branch git reports for every repository below the root
TaskBranch == <<"main">>

\* the module constructed on a task file, the view not built yet
TasksInit ==
    /\ alive = FALSE
    /\ config = EmptyConfig
    /\ module_colors = EmptyDict
    /\ aliased = FALSE
    /\ disk = AbsentFile
    /\ readable = TRUE
    /\ writable = TRUE
    /\ last = NoCall
    /\ nops = 0
    /\ env = StoreEnv
    /\ singleton = NoSingleton
    /\ app = NoApp
    /\ timer = NoDashboard
    /\ watch = NoLog
    /\ \E gitdirs \in TaskTrees, file \in InitialTaskFiles :
          gm = [NoGitManager EXCEPT !.tasks = load_tasks(file),
                                    !.file = file,
                                    !.gitdirs = gitdirs]

\* GitManagerModule(app): the program is started again on the task file
TasksConstruct ==
    LET tasks == load_tasks(gm.file)
    IN  GitReturns([BeforeCall EXCEPT !.op = "construct",
                                      !.tasks = tasks,
                                      !.built = FALSE,
                                      !.buttons = <<>>])

\* build(parent): the view is built, or built again when the module is shown
TasksBuild ==
    LET buttons == recreate_all_task_buttons(gm.tasks)
    IN  GitReturns([BeforeCall EXCEPT !.op = "build",
                                      !.built = TRUE,
                                      !.buttons = buttons])

\* add_task gets as far as _save_tasks
AddReachesSave(gitdirs, unlistable, dialog) ==
    /\ Strip(dialog.name_entry) # <<>>
    /\ dialog.root_exists
    /\ Strip(dialog.script_entry) = <<>> \/ dialog.script_exists
    /\ find_all_git_repositories(gitdirs, unlistable, TaskBranch).repos # <<>>

\* the Add Task button of the dialog; an empty path does not exist, and what
\* add_task does not consult (the entries after the one it refuses, the task
\* file when nothing is saved) is left at one value
TasksAdd ==
    /\ gm.built
    /\ Len(gm.tasks) < MaxTasks
    /\ \E name_entry \in NameEntries, root_entry \in RootEntries,
          script_entry \in ScriptEntries,
          root_exists \in BOOLEAN, script_exists \in BOOLEAN, w \in BOOLEAN :
          LET dialog == [name_entry |-> name_entry, root_entry |-> root_entry,
                         script_entry |-> script_entry,
                         root_exists |-> root_exists,
                         script_exists |-> script_exists]
              scan == find_all_git_repositories(gm.gitdirs, gm.unlistable,
                                                TaskBranch)
              r == add_task(gm.tasks, gm.file, w, gm.buttons, dialog,
                            scan.repos)
          IN  /\ Strip(root_entry) = <<>> => ~root_exists
              /\ Strip(script_entry) = <<>> => ~script_exists
              /\ Strip(name_entry) = <<>> => root_entry = <<>>
              /\ ~root_exists => script_entry = <<>>
              /\ ~AddReachesSave(gm.gitdirs, gm.unlistable, dialog) => w
              /\ GitReturns([BeforeCall EXCEPT !.op = "add_task",
                                 !.tasks = r.tasks, !.file = r.file,
                                 !.buttons = r.buttons, !.warning = r.warning,
                                 !.file_writable = w,
                                 !.name_entry = name_entry,
                                 !.root_entry = root_entry,
                                 !.script_entry = script_entry,
                                 !.root_exists = root_exists,
                                 !.script_exists = script_exists])

\* a click on the delete button of the k-th task shown, and the answer
TasksDelete ==
    /\ gm.built
    /\ \E k \in 1..Len(gm.buttons), confirm \in BOOLEAN, w \in BOOLEAN :
          LET r == delete_task(gm.tasks, gm.file, w, gm.buttons, k, confirm)
          IN  GitReturns([BeforeCall EXCEPT !.op = "delete_task",
                             !.tasks = r.tasks, !.file = r.file,
                             !.buttons = r.buttons, !.raised = r.raised,
                             !.file_writable = w,
                             !.button = k, !.confirm = confirm])

TasksNext == TasksConstruct \/ TasksBuild \/ TasksAdd \/ TasksDelete

TasksSpec == TasksInit /\ [][TasksNext]_vars

----------------------------------------------------------------------------
(* The Dashboard and its one-second timer, src/modules/dashboard/dashboard.py *)

MaxBuilds == 2
MaxTicks == 4

\* an after() identifier is a positive number; None is written 0
NoTimer == 0

\* the DashboardModule after __init__: self._update_timer is None, build has
\* not run, nothing is pending at the event loop
NewDashboard ==
    [op |-> "none",
     built |-> 0,                  \* how often build(parent) has run
     shown |-> FALSE,              \* the labels of the last build exist
     self_update_timer |-> NoTimer,\* self._update_timer
     update_timer |-> NoTimer,     \* _update_timer, the local of the last build
     pending |-> {},               \* after() calls waiting: [id, build]
     next_id |-> 1,
     ticks |-> 0,                  \* how often update_times ran from the timer
     stopped |-> FALSE,            \* stop_updates was called since the last build
     raised |-> FALSE]

\* hasattr(self, '_duration_label'): build assigns self.duration_label, and
\* nothing assigns self._duration_label
HasDurationLabel == FALSE

\* update_times() of the build numbered b: the labels are configured, which
\* raises TclError when they are destroyed; otherwise the next call is put
\* at the event loop and its identifier kept in the local of that build
update_times(d, b) ==
    IF b = d.built /\ d.shown
    THEN [d EXCEPT !.pending = @ \cup {[id |-> d.next_id, build |-> b]},
                   !.update_timer = d.next_id,
                   !.next_id = @ + 1,
                   !.raised = FALSE]
    ELSE [d EXCEPT !.raised = TRUE]

\* build(parent), after the content of the frame was destroyed
build(d) ==
    update_times([d EXCEPT !.built = @ + 1, !.shown = TRUE,
                           !.update_timer = NoTimer, !.stopped = FALSE],
                 d.built + 1)

\* stop_updates(self)
stop_updates(d) ==
    LET cancel == /\ d.self_update_timer # NoTimer
                  /\ HasDurationLabel
                  /\ d.shown
    IN  [d EXCEPT !.pending = IF cancel
                              THEN {t \in @ : t.id # d.self_update_timer}
                              ELSE @,
                  !.self_update_timer = NoTimer,
                  !.stopped = TRUE, !.raised = FALSE]

DashInit ==
    /\ alive = FALSE
    /\ config = EmptyConfig
    /\ module_colors = EmptyDict
    /\ aliased = FALSE
    /\ disk = AbsentFile
    /\ readable = TRUE
    /\ writable = TRUE
    /\ last = NoCall
    /\ nops = 0
    /\ env = StoreEnv
    /\ gm = NoGitManager
    /\ singleton = NoSingleton
    /\ app = NoApp
    /\ watch = NoLog
    /\ timer = NewDashboard

DashReturns(d) ==
    /\ timer' = d
    /\ UNCHANGED <<alive, config, module_colors, aliased, disk, readable,
                   writable, last, nops, env, gm, singleton, app, watch>>

\* App.show_module(dashboard): the content is destroyed, build(parent) runs
DashBuild ==
    /\ timer.built < MaxBuilds
    /\ DashReturns([build(timer) EXCEPT !.op = "build"])

\* App.show_module of another module: the labels are destroyed
DashHide ==
    /\ timer.shown
    /\ DashReturns([timer EXCEPT !.op = "hide", !.shown = FALSE,
                                 !.raised = FALSE])

\* the event loop runs a pending after() call
DashTick ==
    /\ timer.ticks < MaxTicks
    /\ \E t \in timer.pending :
          LET d == [timer EXCEPT !.pending = @ \ {t}, !.ticks = @ + 1]
          IN  DashReturns([update_times(d, t.build) EXCEPT
                              !.op = "update_times"])

\* stop_updates()
DashStop ==
    /\ timer.built > 0
    /\ DashReturns([stop_updates(timer) EXCEPT !.op = "stop_updates"])

DashNext == DashBuild \/ DashHide \/ DashTick \/ DashStop

DashSpec == DashInit /\ [][DashNext]_vars

\* a step that is op of the Dashboard
DashCalled(op) == timer'.op = op

----------------------------------------------------------------------------
(* The Log module and its file watch, src/modules/log/log.py *)

MaxClock == 3

\* self._last_modified and self._last_size before a load succeeded (None)
NoStat == -1

\* sizes of the log file
Sizes == {0, 1}

\* the log file: its modification time (also the name of its content, every
\* write gives new content) and size, and whether open() succeeds
NoLogFile == [exists |-> FALSE, mtime |-> 0, size |-> 0, readable |-> FALSE]
LogFile(t, n, r) ==
    [exists |-> TRUE, mtime |-> t, size |-> n, readable |-> r]

\* LogModule(app, log_file=path) after __init__, the file being f
NewLog(f) ==
    [op |-> "none",
     area |-> FALSE,            \* self.text_area exists
     pending |-> FALSE,         \* text_area.after(...) waits at the event loop
     last_modified |-> NoStat,  \* self._last_modified
     last_size |-> NoStat,      \* self._last_size
     shown |-> 0,               \* the content displayed, 0 when none
     error |-> FALSE,           \* an error line is displayed
     raised |-> FALSE,
     file |-> f,
     clock |-> f.mtime]

\* load_log_file(self)
load_log_file(w) ==
    IF w.file.exists /\ w.file.readable
    THEN [w EXCEPT !.shown = w.file.mtime, !.error = FALSE,
                   !.last_modified = w.file.mtime,
                   !.last_size = w.file.size]
    ELSE [w EXCEPT !.error = TRUE]

\* _load_new_content(self)
load_new_content(w) ==
    IF w.file.readable
    THEN [w EXCEPT !.shown = w.file.mtime, !.error = FALSE]
    ELSE [w EXCEPT !.error = TRUE]

\* _check_for_updates(self); comparing a number with None is a TypeError,
\* which the except clause does not catch
check_for_updates(w) ==
    IF ~w.file.exists THEN w
    ELSE IF w.last_modified = NoStat THEN [w EXCEPT !.raised = TRUE]
    ELSE LET changed == \/ w.file.mtime > w.last_modified
                        \/ w.file.size > w.last_size
             w1 == IF changed
                   THEN load_new_content([w EXCEPT
                                             !.last_modified = w.file.mtime,
                                             !.last_size = w.file.size])
                   ELSE w
         IN  [w1 EXCEPT !.pending = w1.area]

\* start_watching(self)
start_watching(w) == IF w.file.exists THEN check_for_updates(w) ELSE w

\* build(self, parent) of the Log module with a log file: a new text area
log_build(w) ==
    start_watching(load_log_file([w EXCEPT !.area = TRUE, !.shown = 0,
                                           !.error = FALSE,
                                           !.raised = FALSE]))

\* the log file when the module is built
InitialLogFiles ==
    {NoLogFile} \cup {LogFile(1, n, r) : n \in Sizes, r \in BOOLEAN}

LogInit ==
    /\ alive = FALSE
    /\ config = EmptyConfig
    /\ module_colors = EmptyDict
    /\ aliased = FALSE
    /\ disk = AbsentFile
    /\ readable = TRUE
    /\ writable = TRUE
    /\ last = NoCall
    /\ nops = 0
    /\ env = StoreEnv
    /\ gm = NoGitManager
    /\ singleton = NoSingleton
    /\ app = NoApp
    /\ timer = NoDashboard
    /\ \E f \in InitialLogFiles : watch = NewLog(f)

LogReturns(w) ==
    /\ watch' = w
    /\ UNCHANGED <<alive, config, module_colors, aliased, disk, readable,
                   writable, last, nops, env, gm, singleton, app, timer>>

\* App.show_module(log): build(parent)
LogBuild ==
    /\ ~watch.area
    /\ LogReturns([log_build(watch) EXCEPT !.op = "build"])

\* App.show_module of another module destroys the text area; the calls it
\* had waiting at the event loop go with it
LogDestroy ==
    /\ watch.area
    /\ LogReturns([watch EXCEPT !.op = "destroy", !.area = FALSE,
                                !.pending = FALSE, !.raised = FALSE])

\* the event loop runs the scheduled _check_for_updates
LogCheck ==
    /\ watch.pending
    /\ LogReturns([check_for_updates([watch EXCEPT !.pending = FALSE,
                                                   !.raised = FALSE])
                      EXCEPT !.op = "check"])

\* another program writes the log file, or creates it
LogFileWritten ==
    /\ watch.clock < MaxClock
    /\ \E n \in Sizes, r \in BOOLEAN :
          /\ watch.file.exists => r = watch.file.readable
          /\ LogReturns([watch EXCEPT !.op = "written",
                                      !.file = LogFile(watch.clock + 1, n, r),
                                      !.clock = @ + 1])

\* another program removes the log file (a rotation)
LogFileRemoved ==
    /\ watch.file.exists
    /\ LogReturns([watch EXCEPT !.op = "removed", !.file = NoLogFile])

LogNext ==
    LogBuild \/ LogDestroy \/ LogCheck \/ LogFileWritten \/ LogFileRemoved

LogSpec == LogInit /\ [][LogNext]_vars

\* the event loop runs every call that waits
LogFairSpec == LogSpec /\ WF_vars(LogCheck)

----------------------------------------------------------------------------
(* Properties *)

\* the step just taken is a call of op
Called(op) == last'.op = op /\ nops' = nops + 1

\* C1: constructing the store when no file exists at the config path (and the
\* path can be written) returns with the in-memory document equal to the
\* default document and leaves a file at the path holding exactly that
\* document.
C1_MissingFileGivesDefault ==
    (last.op = "construct" /\ last.found = "absent" /\ writable) =>
        /\ ~last.raised /\ alive
        /\ config = [keys        |-> TopKeys,
                     version     |-> "1.0",
                     description |-> "Color configuration for application modules",
                     modules     |-> EmptyDict,
                     window      |-> [bg_color |-> "#00c8f9", fg_color |-> "#ffffff"],
                     settings    |-> [auto_apply |-> TRUE, preview_changes |-> TRUE]]
        /\ module_colors = EmptyDict
        /\ disk = [kind |-> "object",
                   json |-> [keys        |-> TopKeys,
                             version     |-> "1.0",
                             description |-> "Color configuration for application modules",
                             modules     |-> {},
                             window      |-> {<<"bg_color", "#00c8f9">>,
                                              <<"fg_color", "#ffffff">>},
                             settings    |-> {<<"auto_apply", "true">>,
                                              <<"preview_changes", "true">>}]]

C1_Witness ==
    /\ last.op = "construct" /\ last.found = "absent" /\ writable
    /\ alive /\ disk.kind = "object"

\* C2: after set_module_color(name, channel, value), with either setting of
\* auto_save and whether or not the save succeeded, get_module_color(name,
\* channel) returns value.
C2_SetThenGet ==
    last.op = "set_module_color" =>
        get_module_color(store, last.name, last.chan).ret = last.val

C2_Witness ==
    /\ last.op = "set_module_color" /\ last.had /\ last.auto = "False"
    /\ \E c \in Channels \ {last.chan} : c \in DOMAIN module_colors[last.name]

\* C3: register_module of a name that already has an entry in the modules map
\* changes nothing: the entry, the rest of the document and the file stay as
\* they are, whatever defaults are passed.
C3_FirstRegistrationWins ==
    [][(Called("register_module") /\ last'.name \in DOMAIN module_colors) =>
          /\ ~last'.raised
          /\ UNCHANGED <<config, module_colors, aliased, disk>>]_vars

C3_Witness ==
    /\ last.op = "register_module" /\ last.had
    /\ last.val # Omitted /\ last.fg # Omitted
    /\ module_colors[last.name] # [bg_color |-> last.val, fg_color |-> last.fg]
    /\ module_colors[last.name] # module_themes["Dashboard"]

\* C4: after reset_to_defaults the modules map is empty and the window pair is
\* {bg_color "#00c8f9", fg_color "#ffffff"} in memory (get_all_colors,
\* get_applied_colors, get_window_colors) and, the file being writable, in the
\* file.
C4_ResetToDefaults ==
    last.op = "reset_to_defaults" =>
        /\ get_all_colors(store) = EmptyDict
        /\ get_applied_colors(store) = EmptyDict
        /\ get_window_colors(store) = [bg_color |-> "#00c8f9", fg_color |-> "#ffffff"]
        /\ writable =>
              /\ ~last.raised
              /\ disk.kind = "object"
              /\ {"modules", "window"} \subseteq disk.json.keys
              /\ disk.json.modules = {}
              /\ disk.json.window = {<<"bg_color", "#00c8f9">>, <<"fg_color", "#ffffff">>}

\* reset_to_defaults was called with changes pending that the file did not hold
C4_Witness ==
    /\ last.op = "reset_to_defaults" /\ last.dirty /\ writable
    /\ disk.kind = "object"

\* C5: round trip.  save_config() followed by constructing a new store on the
\* same path (the file being readable) gives a store whose document and
\* module map equal those of the store that saved.
C5_SaveLoadRoundTrip ==
    [][(/\ last.op = "save_config" /\ ~last.raised
        /\ Called("construct") /\ readable) =>
          /\ ~last'.raised /\ alive'
          /\ config' = config
          /\ module_colors' = module_colors]_vars

\* a store constructed right after a save_config, holding a document that is
\* not the default one
C5_Witness ==
    /\ last.op = "construct" /\ last.after = "save_config" /\ last.found = "object"
    /\ alive
    /\ module_colors # EmptyDict
    /\ \E k \in DOMAIN config.settings : ~config.settings[k]

\* the calls that persist: reset_to_defaults, update_settings, register_module
\* of a new name, and the two setters unless the caller passes auto_save=False
Persists(call) ==
    \/ call.op \in {"reset_to_defaults", "update_settings"}
    \/ call.op = "register_module" /\ ~call.had
    \/ call.op \in {"set_module_color", "set_window_color"} /\ call.auto # "False"

\* C6: right after a call that persists (the file being writable) the file
\* holds the whole in-memory document, changes made earlier with
\* auto_save=False included; a setter called with auto_save=False leaves the
\* file as it was.
C6_PersistOnMutation ==
    [][(nops' = nops + 1) =>
          /\ (Persists(last') /\ writable) =>
                /\ ~last'.raised
                /\ disk'.kind = "object"
                /\ JsonLoad(disk'.json) = config'
                /\ "modules" \in config'.keys
                /\ config'.modules = module_colors'
          /\ (last'.op \in {"set_module_color", "set_window_color"}
              /\ last'.auto = "False") =>
                /\ ~last'.raised
                /\ disk' = disk]_vars

\* a persisting call made while the file did not hold the in-memory document
C6_Witness ==
    /\ Persists(last) /\ last.op = "set_window_color" /\ last.dirty
    /\ ~last.raised
    /\ module_colors # EmptyDict
    /\ ~Dirty

\* C7: constructing the store on an existing file that cannot be read, is
\* malformed JSON, cannot be decoded or holds JSON that is not an object
\* returns without raising, with the default document in memory and in the
\* file (the path being writable).
C7_LoadNeverRaises ==
    (/\ last.op = "construct" /\ writable
     /\ last.found \in {"unreadable", "malformed", "undecodable", "nonobject"}) =>
        /\ ~last.raised /\ alive
        /\ config = DefaultConfig
        /\ disk = ObjectFile(JsonDump(DefaultConfig))

\* C8: get_module_color changes neither the in-memory document nor the file,
\* creates no entry, and returns the stored value, None when the module or the
\* channel is not stored.
C8_GetIsPureLookup ==
    [][Called("get_module_color") =>
          /\ UNCHANGED <<config, module_colors, aliased, disk>>
          /\ ~last'.raised
          /\ LET n == last'.name
                 c == last'.chan
                 stored == n \in DOMAIN module_colors /\ c \in DOMAIN module_colors[n]
             IN  last'.ret = IF stored THEN module_colors[n][c] ELSE None]_vars

C8_Witness ==
    /\ last.op = "get_module_color" /\ last.ret = None
    /\ last.name \notin DOMAIN module_colors
    /\ module_colors # EmptyDict

\* C9: set_module_color(name, channel, value) creates the entry for name if
\* absent and sets that channel; the other channel of the module, the entries
\* of the other modules, the window pair, the settings and the informational
\* fields are unchanged.
C9_SetChangesOneChannel ==
    [][Called("set_module_color") =>
          LET n == last'.name
              c == last'.chan
              old == IF n \in DOMAIN module_colors THEN module_colors[n] ELSE EmptyDict
          IN  /\ DOMAIN module_colors' = (DOMAIN module_colors) \cup {n}
              /\ \A m \in (DOMAIN module_colors) \ {n} :
                    module_colors'[m] = module_colors[m]
              /\ DOMAIN module_colors'[n] = (DOMAIN old) \cup {c}
              /\ module_colors'[n][c] = last'.val
              /\ \A o \in (DOMAIN old) \ {c} : module_colors'[n][o] = old[o]
              /\ config'.keys \ {"modules"} = config.keys \ {"modules"}
              /\ config'.window = config.window
              /\ config'.settings = config.settings
              /\ config'.version = config.version
              /\ config'.description = config.description]_vars

\* the module had the other channel and another module has an entry
C9_Witness ==
    /\ last.op = "set_module_color" /\ last.had
    /\ \E o \in Channels \ {last.chan} : o \in DOMAIN module_colors[last.name]
    /\ \E m \in ModuleNames \ {last.name} : m \in DOMAIN module_colors

\* C10: the pair register_module inserts for a new name is the built-in
\* table's pair when the name is in the table, whatever defaults are passed,
\* and otherwise the caller's defaults, #ffffff / #000000 for a default that is
\* not passed; the insertion is written to the file (the file being writable).
C10_Table ==
    [n \in {"Dashboard", "System Status", "Git Manager", "Log"} |->
        CASE n = "Dashboard"     -> <<"#ffffff", "#2c3e50">>
          [] n = "System Status" -> <<"#1a1a2e", "#00d4ff">>
          [] n = "Git Manager"   -> <<"#0d1117", "#58a6ff">>
          [] n = "Log"           -> <<"#000000", "#00ff00">>]

C10_Expected(name, bg, fg) ==
    IF name \in DOMAIN C10_Table
    THEN [bg_color |-> C10_Table[name][1], fg_color |-> C10_Table[name][2]]
    ELSE [bg_color |-> IF bg = Omitted THEN "#ffffff" ELSE bg,
          fg_color |-> IF fg = Omitted THEN "#000000" ELSE fg]

C10_RegisteredPair ==
    /\ \A n \in (DOMAIN C10_Table) \cup ModuleNames,
          bg \in DefaultBgArgs, fg \in DefaultFgArgs :
          ThemePair(n, bg, fg) = C10_Expected(n, bg, fg)
    /\ (last.op = "register_module" /\ ~last.had) =>
          /\ last.name \in DOMAIN module_colors
          /\ module_colors[last.name] = C10_Expected(last.name, last.val, last.fg)
          /\ writable =>
                /\ ~last.raised
                /\ disk.kind = "object"
                /\ <<last.name, DumpPair(C10_Expected(last.name, last.val, last.fg))>>
                      \in disk.json.modules

C10_Witness ==
    /\ last.op = "register_module" /\ ~last.had /\ ~last.raised
    /\ last.name = "Dashboard" /\ last.val # Omitted /\ last.fg # Omitted
    /\ "Notes" \in DOMAIN module_colors

\* C11: update_settings(partial) merges partial into the stored settings:
\* every key of partial maps to partial's value, every other stored setting
\* keeps its value, the module map and the window pair are unchanged, and
\* (the file being writable) the file holds the resulting document; this holds
\* too when the document had no settings section.
C11_UpdateSettingsMerges ==
    [][Called("update_settings") =>
          LET partial == last'.settings
              old == IF "settings" \in config.keys THEN config.settings ELSE EmptyDict
          IN  /\ "settings" \in config'.keys
              /\ DOMAIN config'.settings = (DOMAIN old) \cup (DOMAIN partial)
              /\ \A k \in DOMAIN partial : config'.settings[k] = partial[k]
              /\ \A k \in (DOMAIN old) \ (DOMAIN partial) : config'.settings[k] = old[k]
              /\ module_colors' = module_colors
              /\ config'.window = config.window
              /\ ("window" \in config'.keys) = ("window" \in config.keys)
              /\ writable =>
                    /\ ~last'.raised
                    /\ disk'.kind = "object"
                    /\ JsonLoad(disk'.json) = config']_vars

\* update_settings on a document that had no settings section
C11_Witness ==
    /\ last.op = "update_settings" /\ ~last.had /\ ~last.raised
    /\ DOMAIN config.settings = DOMAIN last.settings
    /\ ~Dirty

\* C12: in every state reached from the default document through the store's
\* operations, each entry of the modules map holds both a bg_color and a
\* fg_color.
C12_EntriesAreColorPairs ==
    alive => \A n \in DOMAIN module_colors : DOMAIN module_colors[n] = Channels

\* C13: after set_window_color(channel, value), get_window_colors() returns a
\* pair whose channel is value and whose other channel is what it was, the
\* default when the document had no window section; get_window_colors() on a
\* document without a window section returns {"#00c8f9", "#ffffff"} and
\* changes neither the document nor the file.
C13_WindowColors ==
    [][/\ Called("set_window_color") =>
             LET c == last'.chan
                 old == IF "window" \in config.keys THEN config.window
                        ELSE [bg_color |-> "#00c8f9", fg_color |-> "#ffffff"]
                 new == get_window_colors(Store(config', module_colors', aliased'))
             IN  /\ DOMAIN new = (DOMAIN old) \cup {c}
                 /\ new[c] = last'.val
                 /\ \A o \in (DOMAIN old) \ {c} : new[o] = old[o]
       /\ Called("get_window_colors") =>
             /\ UNCHANGED <<config, module_colors, aliased, disk>>
             /\ ~last'.raised
             /\ last'.pair = IF "window" \in config.keys THEN config.window
                             ELSE [bg_color |-> "#00c8f9", fg_color |-> "#ffffff"]]_vars

\* set_window_color called on a document without a window section
C13_Witness ==
    /\ last.op = "set_window_color" /\ ~last.had
    /\ "window" \in config.keys
    /\ DOMAIN config.window = Channels

C14_SaveToGivenPath ==
    [][/\ (Called("save_config_path") /\ writable) =>
             /\ ~last'.raised
             /\ env'.files[last'.path] = ObjectFile(JsonDump(config'))
             /\ DirName(last'.path) # <<>> => DirName(last'.path) \in env'.dirs
             /\ \A p \in OtherPaths \ {last'.path} : env'.files[p] = env.files[p]
             /\ disk' = disk
       /\ (Called("save_config") /\ writable) =>
             /\ ~last'.raised
             /\ disk' = ObjectFile(JsonDump(config'))
             /\ env' = env]_vars

\* the paths of the repositories a scan returned
ScanPaths == {gm.repos[i].path : i \in 1..Len(gm.repos)}

\* no name on the path is hidden
NotHidden(p) == \A i \in 1..Len(p) : ~StartsWithDot(p[i])

\* every directory above p, the root included, can be listed
Listable(p) == \A k \in 0..(Len(p) - 1) : SubSeq(p, 1, k) \notin gm.unlistable

\* C16: the scan of a root whose directories can all be listed returns exactly
\* the non-hidden directories that contain .git and lie at depth 1, 2 or 3
\* below the root, each once, and none that lies deeper than 3.
C16_ScanDepthBound ==
    gm.op = "scan" /\ gm.unlistable = {}
    => /\ ScanPaths = {p \in gm.gitdirs : Len(p) \in 1..3 /\ NotHidden(p)}
       /\ Len(gm.repos) = Cardinality(ScanPaths)
       /\ \A p \in ScanPaths : Len(p) <= 3

\* C17 as stated: whenever git rev-parse --abbrev-ref HEAD exits non-zero,
\* times out or cannot be started, _get_branch_name returns "Unknown" and
\* raises nothing.
C17_FailureGivesUnknown ==
    gm.op = "get_branch_name" /\ ~(gm.run1.kind = "exit" /\ gm.run1.code = 0)
    => gm.branch = Unknown /\ ~gm.raised

\* C17, amended: _get_branch_name raises nothing; it returns "Unknown" when
\* the first command times out or cannot be started, and when it exits
\* non-zero and git rev-parse --short HEAD fails as well (non-zero exit,
\* timeout, cannot be started); when the first command exits non-zero and the
\* second exits 0 it returns "detached-" followed by the stripped output of
\* the second.
C17_FallbackLabels ==
    gm.op = "get_branch_name"
    => /\ ~gm.raised
       /\ gm.run1.kind # "exit" => gm.branch = Unknown
       /\ (gm.run1.kind = "exit" /\ gm.run1.code # 0
           /\ ~(gm.run2.kind = "exit" /\ gm.run2.code = 0))
          => gm.branch = Unknown
       /\ (gm.run1.kind = "exit" /\ gm.run1.code # 0
           /\ gm.run2.kind = "exit" /\ gm.run2.code = 0)
          => gm.branch = <<"detached-">> \o Strip(gm.run2.out)

\* the first command exited non-zero, the second printed the short hash
C17_Witness ==
    /\ gm.op = "get_branch_name"
    /\ gm.run1 = Exit(128, <<>>)
    /\ gm.run2 = Exit(0, <<"abc1234", "\n">>)
    /\ gm.branch = <<"detached-", "abc1234">>
    /\ ~gm.raised

\* the first command printed the literal HEAD and exited 0
DetachedHead(run1) ==
    run1.kind = "exit" /\ run1.code = 0 /\ Strip(run1.out) = <<"HEAD">>

IsFallbackLabel(branch) ==
    branch = Unknown \/ (Len(branch) > 0 /\ branch[1] = "detached-")

\* C18: for a repository in a detached-HEAD state the branch that is returned,
\* and the branch recorded by a scan, is "detached-<short hash>" or "Unknown",
\* not the output of the first command.
C18_DetachedHeadLabel ==
    /\ gm.op = "get_branch_name" /\ DetachedHead(gm.run1)
       => IsFallbackLabel(gm.branch) /\ gm.branch # Strip(gm.run1.out)
    /\ gm.op = "scan" /\ DetachedHead(gm.run1)
       => \A i \in 1..Len(gm.repos) : IsFallbackLabel(gm.repos[i].branch)

\* C19: a permission error while listing a directory skips only that
\* directory: the scan raises nothing and returns every repository within the
\* depth bound that is not hidden and not below the directory that cannot be
\* listed, and none below it.
C19_PermissionErrorSkipsDirectory ==
    gm.op = "scan"
    => /\ ~gm.raised
       /\ {p \in ScanPaths : Len(p) <= 3}
          = {p \in gm.gitdirs : Len(p) \in 1..3 /\ NotHidden(p) /\ Listable(p)}

\* a/b cannot be listed; the repositories a, a/b, a/t and s are returned, the
\* repository a/b/c below it is not
C19_Witness ==
    /\ gm.op = "scan"
    /\ gm.unlistable = {Chain(2)}
    /\ {Chain(1), Chain(2), Chain(3), <<Name(<<"a">>), Name(<<"t">>)>>,
        <<Name(<<"s">>)>>} \subseteq gm.gitdirs
    /\ {Chain(1), Chain(2), <<Name(<<"a">>), Name(<<"t">>)>>, <<Name(<<"s">>)>>}
       \subseteq ScanPaths
    /\ Chain(3) \notin ScanPaths
    /\ ~gm.raised

\* C20: _execute_script opens exactly one dialog for each outcome of the
\* script (exit code 0, non-zero exit code, timeout, failure to start),
\* leaves the task list unchanged and returns normally.
C20_ExecuteScriptSurfaces ==
    [][GitCalled("execute_script")
       => /\ Len(gm'.dialogs) = 1
          /\ gm'.script.kind = "exit" => gm'.dialogs[1].kind = "showinfo"
          /\ gm'.script.kind # "exit" => gm'.dialogs[1].kind = "showerror"
          /\ gm'.tasks = gm.tasks
          /\ ~gm'.raised]_vars

\* the script could not be started and one error dialog was opened
C20_Witness ==
    /\ gm.op = "execute_script"
    /\ gm.script.kind = "oserror"
    /\ Len(gm.dialogs) = 1
    /\ gm.dialogs[1].kind = "showerror"
    /\ ~gm.raised

\* C29: in every state of the store the two views of the module colours
\* agree: get_applied_colors(), the modules section of the document, equals
\* get_all_colors(), the working module map.
C29_ViewsAgree ==
    alive => get_applied_colors(store) = get_all_colors(store)

\* C30: get_color_config returns the store the singleton holds, whatever
\* config_path is passed, and changes nothing; only reset_color_config, and
\* get_color_config when there is no store, change which store is held; the
\* first call after reset_color_config returns a store that no earlier call
\* returned and that holds the document of the file, so changes that were
\* never saved are not in it.
C30_SingletonUntilReset ==
    [][/\ (last'.op = "get_color_config" /\ singleton.id # 0)
          => /\ singleton' = singleton
             /\ last'.inst = singleton.id
             /\ UNCHANGED <<config, module_colors, aliased, disk>>
       /\ (last'.op = "get_color_config" /\ singleton.id = 0 /\ ~last'.raised)
          => /\ last'.inst = singleton'.id
             /\ singleton'.id > singleton.made
             /\ disk'.kind = "object"
             /\ config' = JsonLoad(disk'.json)
             /\ module_colors' = get_applied_colors([config |-> config'])
       /\ singleton'.id # singleton.id
          => \/ last'.op = "reset_color_config" /\ singleton'.id = 0
             \/ last'.op = "get_color_config" /\ singleton.id = 0
       /\ last'.op = "reset_color_config" => singleton'.id = 0 /\ disk' = disk
      ]_vars

\* a second store was constructed after a reset that dropped a store with
\* unsaved changes
C30_Witness ==
    /\ last.op = "get_color_config"
    /\ last.after = "reset_color_config"
    /\ last.had
    /\ singleton.id = 2
    /\ alive /\ ~Dirty

\* the value of the panel field with the given key when _apply_colors ran
FieldValue(key) ==
    LET k == CHOOSE k \in 1..Len(app.fields) : app.fields[k].key = key
    IN  app.fields[k].val

\* C21: after _apply_colors, for every module M of app.modules and each of
\* bg_color and fg_color, the attribute of M and the colour the store holds
\* for M.name both equal the value of the panel field created for them.
C21_ApplyStoresModuleColours ==
    app.applied
    => \A i \in 1..Len(app.mods) : \A c \in {BgColor, FgColor} :
          LET M == app.mods[i] IN
          /\ GetAttr(M, Str(c), None) = FieldValue(ModuleKey(M, c))
          /\ Str(M.name) \in DOMAIN app.colors
          /\ Get(app.colors[Str(M.name)], Str(c)) = FieldValue(ModuleKey(M, c))

\* C22: after _apply_colors the window colours of the store are the values of
\* the Background and Text fields of the panel's window section.
C22_ApplyStoresWindowColours ==
    app.applied
    => /\ app.window["bg_color"] = FieldValue(WindowKey(<<"window", "_", "bg">>))
       /\ app.window["fg_color"] = FieldValue(WindowKey(<<"window", "_", "fg">>))

\* C23: _is_color_panel_open is true exactly when the colour panel is shown.
C23_FlagMatchesPanel ==
    app.exists => (app.is_open <=> (app.panel /\ app.placed))

\* C24: in sidebar mode, after register_module of at least one named module
\* and build_navigation, active_module is the first registered module.
C24_FirstModuleShown ==
    (app.op = "build_navigation" /\ ~app.single /\ Len(app.modules) >= 1)
    => app.active = 1

\* what the add-task dialog was given is acceptable: a name, a root that
\* exists, no script or one that exists, and a repository below the root
AddAccepted ==
    /\ Strip(gm'.name_entry) # <<>>
    /\ gm'.root_exists
    /\ Strip(gm'.script_entry) = <<>> \/ gm'.script_exists
    /\ find_all_git_repositories(gm.gitdirs, gm.unlistable, TaskBranch).repos
          # <<>>

\* C25: the add-task dialog appends one task exactly when the name is not
\* empty, the root path exists, the script path is empty or exists and the
\* scan of the root found a repository; the task file then holds the list when
\* it can be written.  In every other case the list and the file are
\* unchanged.  The appended task has script_path None when no script was
\* entered, and git_repos is never empty.
C25_AddTaskValidates ==
    [][GitCalled("add_task") =>
         IF AddAccepted
         THEN /\ Len(gm'.tasks) = Len(gm.tasks) + 1
              /\ SubSeq(gm'.tasks, 1, Len(gm.tasks)) = gm.tasks
              /\ LET task == gm'.tasks[Len(gm'.tasks)]
                 IN  /\ task.name = Strip(gm'.name_entry)
                     /\ task.git_repos # <<>>
                     /\ (Strip(gm'.script_entry) = <<>>)
                           <=> (TaskDump(task).script_path = JsonNull)
              /\ gm'.file_writable => gm'.file = TaskFile(TasksDump(gm'.tasks))
         ELSE gm'.tasks = gm.tasks /\ gm'.file = gm.file]_vars

\* a task without a script was appended to another and written
C25_Witness ==
    /\ gm.op = "add_task"
    /\ gm.warning = "-"
    /\ Len(gm.tasks) = 2
    /\ gm.tasks[2].name = <<"deploy">>
    /\ gm.tasks[2].script_path = <<>>
    /\ gm.file.kind = "array"
    /\ Len(gm.file.json) = 2
    /\ gm.file.json[2].script_path = JsonNull

\* the delete button of the k-th task holds the current position of the task
ButtonsMatchTasks ==
    /\ Len(gm.buttons) = Len(gm.tasks)
    /\ \A k \in 1..Len(gm.buttons) :
          gm.buttons[k] = TaskButton(gm.tasks[k], k - 1)

\* the confirmed click removes the task of the button and no other
RemovesExactlyThatTask ==
    LET k == gm'.button IN
    /\ gm.buttons[k].task = gm.tasks[k]
    /\ gm'.tasks = SubSeq(gm.tasks, 1, k - 1)
                      \o SubSeq(gm.tasks, k + 1, Len(gm.tasks))
    /\ ~gm'.raised

TickPending(d) == \E t \in d.pending : t.build = d.built

\* C27: stop_updates stops the timer: after build(parent) has started the
\* chain of update_times, stop_updates leaves no tick of that build pending,
\* and update_times does not run from the timer until the next build.
C27_StopUpdatesStopsTimer ==
    [][/\ DashCalled("stop_updates") => ~TickPending(timer')
       /\ timer.stopped /\ DashCalled("update_times") => timer'.raised]_vars

\* the text area exists and does not display the content of the log file
Stale ==
    /\ watch.area
    /\ watch.file.exists
    /\ watch.file.readable
    /\ watch.shown # watch.file.mtime

\* C28: while the text area exists the watch keeps running: content of the
\* log file that is not displayed is eventually displayed (or the text area
\* destroyed, or the file removed), also after the file was away for some
\* checks and after a failed initial load.
C28_WatchKeepsRunning == Stale ~> ~Stale

====
